---- MODULE Spec2Model ----
(***************************************************************************)
(* Summa: the RAG ingestion and query pipeline (backend/services.py,       *)
(* backend/main.py, backend/utils.py).  A text is a sequence of one-       *)
(* character strings; a formatted string is the concatenation of its       *)
(* pieces.  The HTTP handlers of main.py run as calls that advance one     *)
(* step at a time against the two process-wide RagService objects.         *)
(* The transcript cache of backend/video_service.py over the videos table  *)
(* of backend/database.py has a specification of its own.                  *)
(***************************************************************************)
EXTENDS Integers, Sequences, FiniteSets, TLC

(***************************************************************************)
(* Bounds of the model.                                                    *)
(***************************************************************************)
MaxCalls == 2
MaxSessions == 2

(***************************************************************************)
(* Characters and text helpers (Python str methods).                       *)
(***************************************************************************)
NL == "\n"
BadByte == "0xFF"
Whitespace == {" ", NL}

\* bytes.decode('utf-8', errors='ignore') / open(..., errors='ignore'):
\* bytes that are no valid UTF-8 are left out, the others are kept in order.
DecodeIgnore(bytes) == SelectSeq(bytes, LAMBDA b : b # BadByte)

\* str.lower() on the characters file names are made of.
LowerChar(c) ==
    CASE c = "T" -> "t"
      [] c = "X" -> "x"
      [] c = "M" -> "m"
      [] c = "D" -> "d"
      [] OTHER -> c

Lower(s) == [i \in 1..Len(s) |-> LowerChar(s[i])]

RECURSIVE LStrip(_)
LStrip(s) ==
    IF s # <<>> /\ Head(s) \in Whitespace THEN LStrip(Tail(s)) ELSE s

RECURSIVE RStrip(_)
RStrip(s) ==
    IF s # <<>> /\ s[Len(s)] \in Whitespace
    THEN RStrip(SubSeq(s, 1, Len(s) - 1))
    ELSE s

\* str.strip()
Strip(s) == RStrip(LStrip(s))

\* sub is a prefix of s
StartsWith(s, sub) ==
    /\ Len(sub) <= Len(s)
    /\ SubSeq(s, 1, Len(sub)) = sub

Drop(s, n) == SubSeq(s, n + 1, Len(s))

\* re.search(re.escape(sub), s) is not None
Contains(s, sub) ==
    \E i \in 0..(Len(s) - Len(sub)) : StartsWith(Drop(s, i), sub)

\* str.find(sub, start): the lowest 0-based index >= start, or -1
Find(s, sub, start) ==
    LET hits == {i \in start..(Len(s) - Len(sub)) : StartsWith(Drop(s, i), sub)}
    IN  IF hits = {} THEN -1 ELSE CHOOSE i \in hits : \A j \in hits : i <= j

\* sep.join(parts)
RECURSIVE Join(_, _)
Join(sep, parts) ==
    IF parts = <<>> THEN <<>>
    ELSE IF Len(parts) = 1 THEN parts[1]
    ELSE parts[1] \o sep \o Join(sep, Tail(parts))

\* os.path.splitext(name)[1]: from the last dot on, unless only dots precede it
SplitExt(name) ==
    LET dots == {i \in 1..Len(name) : name[i] = "."}
        last == CHOOSE i \in dots : \A j \in dots : j <= i
    IN  IF dots = {} THEN <<>>
        ELSE IF \A j \in 1..(last - 1) : name[j] = "." THEN <<>>
        ELSE SubSeq(name, last, Len(name))

(***************************************************************************)
(* The chunker: RagService._split_documents builds a                       *)
(* RecursiveCharacterTextSplitter(chunk_size=1000, chunk_overlap=200,      *)
(* add_start_index=True) and calls split_documents.                        *)
(***************************************************************************)
chunk_size == 1000
chunk_overlap == 200
Separators == << <<NL, NL>>, <<NL>>, <<" ">>, <<>> >>

Max(a, b) == IF a >= b THEN a ELSE b

\* the 1-based positions where sep matches, found left to right, a match
\* starting no earlier than the end of the one before it
RECURSIVE Matches(_, _, _)
Matches(hits, sepLen, from) ==
    LET later == {i \in hits : i >= from}
    IN  IF later = {} THEN <<>>
        ELSE LET first == CHOOSE i \in later : \A j \in later : i <= j
             IN  <<first>> \o Matches(later, sepLen, first + sepLen)

\* pieces of text cut at every occurrence of sep, each later piece keeping
\* the separator it starts with
SplitAt(text, sep) ==
    LET hits == {i \in 1..(Len(text) - Len(sep) + 1) :
                   StartsWith(Drop(text, i - 1), sep)}
        at == Matches(hits, Len(sep), 1)
        n == Len(at)
    IN  IF n = 0 THEN <<text>>
        ELSE <<SubSeq(text, 1, at[1] - 1)>>
             \o [k \in 1..n |->
                   SubSeq(text, at[k], IF k < n THEN at[k + 1] - 1 ELSE Len(text))]

\* the splitter's regex split with keep_separator=True; empty pieces dropped
split_text_with_regex(text, sep) ==
    LET raw == IF sep = <<>>
               THEN [i \in 1..Len(text) |-> <<text[i]>>]
               ELSE SplitAt(text, sep)
    IN  SelectSeq(raw, LAMBDA s : s # <<>>)

\* the joined and stripped text; the empty text stands for None
join_docs(docs, sep) == Strip(Join(sep, docs))

\* the while loop of the merge: pieces leave the front of current_doc until
\* what is kept fits the overlap and the next piece fits the chunk
RECURSIVE PopFront(_, _, _, _)
PopFront(current_doc, total, len, sepLen) ==
    IF \/ total > chunk_overlap
       \/ /\ total + len + (IF Len(current_doc) > 0 THEN sepLen ELSE 0) > chunk_size
          /\ total > 0
    THEN PopFront(Tail(current_doc),
                  total - (Len(current_doc[1])
                           + (IF Len(current_doc) > 1 THEN sepLen ELSE 0)),
                  len, sepLen)
    ELSE <<current_doc, total>>

RECURSIVE MergeLoop(_, _, _, _, _)
MergeLoop(splits, sep, docs, current_doc, total) ==
    IF splits = <<>>
    THEN LET doc == join_docs(current_doc, sep)
         IN  IF doc # <<>> THEN Append(docs, doc) ELSE docs
    ELSE LET d == Head(splits)
             len == Len(d)
             sepLen == Len(sep)
             over == total + len
                       + (IF Len(current_doc) > 0 THEN sepLen ELSE 0) > chunk_size
             flush == over /\ Len(current_doc) > 0
             doc == join_docs(current_doc, sep)
             docs1 == IF flush /\ doc # <<>> THEN Append(docs, doc) ELSE docs
             popped == IF flush THEN PopFront(current_doc, total, len, sepLen)
                       ELSE <<current_doc, total>>
             cur2 == Append(popped[1], d)
             total2 == popped[2] + len + (IF Len(cur2) > 1 THEN sepLen ELSE 0)
         IN  MergeLoop(Tail(splits), sep, docs1, cur2, total2)

merge_splits(splits, sep) == MergeLoop(splits, sep, <<>>, <<>>, 0)

RECURSIVE split_text(_, _)
RECURSIVE SplitLoop(_, _, _, _)
SplitLoop(splits, new_separators, good_splits, final_chunks) ==
    IF splits = <<>>
    THEN IF good_splits # <<>>
         THEN final_chunks \o merge_splits(good_splits, <<>>)
         ELSE final_chunks
    ELSE LET s == Head(splits)
         IN  IF Len(s) < chunk_size
             THEN SplitLoop(Tail(splits), new_separators,
                            Append(good_splits, s), final_chunks)
             ELSE LET flushed == IF good_splits # <<>>
                                 THEN final_chunks \o merge_splits(good_splits, <<>>)
                                 ELSE final_chunks
                      more == IF new_separators = <<>> THEN <<s>>
                              ELSE split_text(s, new_separators)
                  IN  SplitLoop(Tail(splits), new_separators, <<>>, flushed \o more)

split_text(text, separators) ==
    LET cands == {i \in 1..Len(separators) :
                    separators[i] = <<>> \/ Contains(text, separators[i])}
        idx == IF cands = {} THEN Len(separators)
               ELSE CHOOSE i \in cands : \A j \in cands : i <= j
        separator == separators[idx]
        new_separators == IF cands = {} \/ separator = <<>> THEN <<>>
                          ELSE SubSeq(separators, idx + 1, Len(separators))
    IN  SplitLoop(split_text_with_regex(text, separator), new_separators, <<>>, <<>>)

\* one Document per chunk of one text, with its start_index
RECURSIVE DocChunks(_, _, _, _, _)
DocChunks(text, source, chunks, index, previous_chunk_len) ==
    IF chunks = <<>> THEN <<>>
    ELSE LET chunk == Head(chunks)
             offset == index + previous_chunk_len - chunk_overlap
             found == Find(text, chunk, Max(0, offset))
         IN  << [page_content |-> chunk,
                 metadata |-> [source |-> source, start_index |-> found]] >>
             \o DocChunks(text, source, Tail(chunks), found, Len(chunk))

\* RagService._split_documents
RECURSIVE split_documents(_)
split_documents(documents) ==
    IF documents = <<>> THEN <<>>
    ELSE LET doc == Head(documents)
         IN  DocChunks(doc.page_content, doc.metadata.source,
                       split_text(doc.page_content, Separators), 0, 0)
             \o split_documents(Tail(documents))

(***************************************************************************)
(* The embedding endpoint and the two vector stores.  The embedding model  *)
(* is an external service: here a text is embedded as its character        *)
(* counts, and two vectors are compared by cosine similarity.              *)
(***************************************************************************)
EmbedDims == {"a", "b"}

\* OpenAIEmbeddings.embed_query / embed_documents when the endpoint answers
Embed(text) ==
    [d \in EmbedDims |-> Cardinality({i \in 1..Len(text) : text[i] = d})]

Dot(u, v) == u["a"] * v["a"] + u["b"] * v["b"]

Norm2(u) == IF Dot(u, u) = 0 THEN 1 ELSE Dot(u, u)

\* cos(q, u) >= cos(q, v), for vectors without negative components
SimGE(q, u, v) ==
    Dot(q, u) * Dot(q, u) * Norm2(v) >= Dot(q, v) * Dot(q, v) * Norm2(u)

Min(a, b) == IF a <= b THEN a ELSE b

\* up to k positions of the index, in whatever order
RankingsAnyOrder(index, qvec, k) ==
    LET n == Len(index)
        m == IF k <= n THEN k ELSE n
    IN  {r \in [1..m -> 1..n] : \A i, j \in 1..m : i < j => r[i] # r[j]}

\* vectorstore.similarity_search(query, k): the positions of up to k entries
\* of the index in descending similarity to the query; entries of equal
\* similarity come in any order
Rankings(index, qvec, k) ==
    LET n == Len(index)
        m == Min(k, n)
    IN  {r \in [1..m -> 1..n] :
            /\ \A i, j \in 1..m : i < j =>
                  /\ r[i] # r[j]
                  /\ SimGE(qvec, index[r[i]].vector, index[r[j]].vector)
            /\ \A e \in 1..n : (\A i \in 1..m : r[i] # e) =>
                  \A i \in 1..m : SimGE(qvec, index[r[i]].vector, index[e].vector)}

\* copies that leave the metadata of the stored entries behind
FoundDocsUnsourced(index, r) ==
    [i \in 1..Len(r) |-> [id |-> index[r[i]].id,
                          page_content |-> index[r[i]].page_content,
                          metadata |-> [source |-> <<>>, start_index |-> 0]]]

\* the Documents a search hands back: fresh copies of the stored entries
FoundDocs(index, r) ==
    [i \in 1..Len(r) |-> [id |-> index[r[i]].id,
                          page_content |-> index[r[i]].page_content,
                          metadata |-> index[r[i]].metadata]]

\* vectorstore.add_documents(chunks) when it succeeds: one entry per chunk,
\* in order, each under a fresh id; call and session tell which request
\* added the entry and in which uploaded-file chat
NewEntries(chunks, ids, c, s) ==
    [i \in 1..Len(chunks) |-> [id |-> ids[i],
                               page_content |-> chunks[i].page_content,
                               metadata |-> chunks[i].metadata,
                               vector |-> Embed(chunks[i].page_content),
                               call |-> c, session |-> s]]

\* ids that start again at 1 in every call
RestartIds(n, next) == [i \in 1..n |-> i]

\* the ids add_documents gives n new entries: none was handed out before
FreshIds(n, next) == [i \in 1..n |-> next + i - 1]

\* the errors add_documents can end with: the embedding endpoint is asked
\* only when there is a chunk to embed, and the Chroma collection refuses
\* an empty batch
AddErrors(target, chunks) ==
    IF chunks # <<>> THEN {"APIConnectionError"}
    ELSE IF target = "db" THEN {"ValueError"} ELSE {}

\* add_documents can succeed: the in-memory store takes an empty batch
AddCanSucceed(target, chunks) == chunks # <<>> \/ target = "im"

\* a search that raises when the index holds no entry
vector_search_needs_entries(index, query, k) ==
    IF index = <<>>
    THEN {[ok |-> FALSE, exc |-> "IndexError", docs |-> <<>>]}
    ELSE {[ok |-> TRUE, exc |-> "none", docs |-> FoundDocs(index, r)] :
             r \in Rankings(index, Embed(query), k)}
         \cup {[ok |-> FALSE, exc |-> "APIConnectionError", docs |-> <<>>]}

\* RagService._vector_search: what the call can end with.  The query is
\* embedded first, so the endpoint can fail whatever the index holds.
vector_search(index, query, k) ==
    {[ok |-> TRUE, exc |-> "none", docs |-> FoundDocs(index, r)] :
        r \in Rankings(index, Embed(query), k)}
    \cup {[ok |-> FALSE, exc |-> "APIConnectionError", docs |-> <<>>]}

(***************************************************************************)
(* Files: what is in the data directory and what a caller can upload.      *)
(* bytes is the raw content of a text file; parts are the pages,           *)
(* paragraphs or shape texts an external reader finds in a PDF, DOCX or    *)
(* PPTX file, and corrupt says that the reader fails on it.                *)
(***************************************************************************)
File(name, bytes, parts, corrupt) ==
    [filename |-> name, bytes |-> bytes, parts |-> parts, corrupt |-> corrupt]

FNote == File(<<"n", ".", "t", "x", "t">>, <<"a", BadByte, " ", "a">>, <<>>, FALSE)
FTodo == File(<<"t", ".", "M", "D">>, <<" ", "b">>, <<>>, FALSE)
FEmpty == File(<<"e", ".", "t", "x", "t">>, <<>>, <<>>, FALSE)
FPdf == File(<<"p", ".", "p", "d", "f">>, <<>>, << <<"a", "b">> >>, FALSE)
FSheet == File(<<"x", ".", "x", "l", "s", "x">>, <<"a">>, <<>>, FALSE)
NoFile == File(<<>>, <<>>, <<>>, FALSE)

\* the files of the data directory, by relative path
DiskFiles == {FNote, FTodo, FEmpty, FSheet}
PMissing == <<"m", ".", "t", "x", "t">>

\* the path lists a caller sends to /rag/ingest
PathLists ==
    { <<FNote.filename, FTodo.filename>>,
      <<FEmpty.filename>>,
      <<FTodo.filename, PMissing>>,
      <<FSheet.filename>> }

\* the files a caller sends to /rag/ingest_uploaded_file
Uploads == {FTodo, FEmpty, FSheet}

\* the query texts a caller sends
Queries == { <<"a", " ", "b">> }

\* what the chat model answers, when it answers
Answers == { <<" ", "o", "k", NL>> }

\* the inmemory field of a request: given as true or false, or left out
Supplied == {"true", "false", "omitted"}

\* exc is the error the caller of the function catches, cause the error
\* that was raised first
Raised(type) == [ok |-> FALSE, exc |-> type, cause |-> type, content |-> <<>>]
Returned(text) == [ok |-> TRUE, exc |-> "none", cause |-> "none", content |-> text]

\* except Exception as e: raise Exception(f"Failed to ...: {e}")
Rewrapped(cause, type) == [Raised(type) EXCEPT !.cause = cause]

\* LocalFileService.read_pdf: every page's text followed by a line break
RECURSIVE PdfText(_)
PdfText(pages) ==
    IF pages = <<>> THEN <<>> ELSE Head(pages) \o <<NL>> \o PdfText(Tail(pages))

read_pdf(f) ==
    IF f.corrupt THEN Rewrapped("PdfReadError", "Exception") ELSE Returned(PdfText(f.parts))

\* LocalFileService.read_docx, read_pptx: the texts joined by line breaks
read_docx(f) ==
    IF f.corrupt THEN Rewrapped("PackageNotFoundError", "Exception") ELSE Returned(Join(<<NL>>, f.parts))

read_pptx(f) ==
    IF f.corrupt THEN Rewrapped("PackageNotFoundError", "Exception") ELSE Returned(Join(<<NL>>, f.parts))

TextExts == { <<".", "m", "d">>, <<".", "t", "x", "t">> }

\* a branch that reads a file of any other extension as text
ContentByExtAnyText(f) ==
    LET ext == Lower(SplitExt(f.filename))
    IN  IF ext = <<".", "p", "d", "f">> THEN read_pdf(f)
        ELSE IF ext = <<".", "d", "o", "c", "x">> THEN read_docx(f)
        ELSE IF ext = <<".", "p", "p", "t", "x">> THEN read_pptx(f)
        ELSE Returned(DecodeIgnore(f.bytes))

\* the branch on the extension that get_content and
\* get_uploaded_file_content share
ContentByExt(f) ==
    LET ext == Lower(SplitExt(f.filename))
    IN  IF ext \in TextExts THEN Returned(DecodeIgnore(f.bytes))
        ELSE IF ext = <<".", "p", "d", "f">> THEN read_pdf(f)
        ELSE IF ext = <<".", "d", "o", "c", "x">> THEN read_docx(f)
        ELSE IF ext = <<".", "p", "p", "t", "x">> THEN read_pptx(f)
        ELSE Raised("Exception")

\* LocalFileService.get_content
get_content(rel_path) ==
    IF \A f \in DiskFiles : f.filename # rel_path
    THEN Raised("FileNotFoundError")
    ELSE ContentByExt(CHOOSE f \in DiskFiles : f.filename = rel_path)

\* LocalFileService.get_uploaded_file_content
get_uploaded_file_content(file) == ContentByExt(file)

\* GET /files/content: the status the handler answers with
FilesContentStatus(path) ==
    IF Contains(path, <<".", ".">>) THEN 403
    ELSE LET got == get_content(path)
         IN  IF got.ok THEN 200
             ELSE IF got.exc = "FileNotFoundError" THEN 404
             ELSE 500

\* utils.get_file_content, when the request is answered: what went wrong
\* in the handler of /files/content comes back as a status, and any status
\* but 200 is raised as an Exception
get_file_content(path) ==
    IF FilesContentStatus(path) = 200 THEN Returned(get_content(path).content)
    ELSE IF FilesContentStatus(path) = 403 THEN Rewrapped("HTTPException", "Exception")
    ELSE Rewrapped(get_content(path).cause, "Exception")

(***************************************************************************)
(* YouTube URLs and the videos table (backend/video_service.py,            *)
(* backend/database.py).  A URL is a sequence of pieces: a scheme, "www.", *)
(* a host with its path, and THEN single characters.                       *)
(***************************************************************************)
\* the calls of transcribe_video_with_cache
MaxTranscribes == 2

TranscribeIds == 1..MaxTranscribes

\* [a-zA-Z0-9_-], as far as the ids here use it
IdChars == {"a", "b", "A", "Z", "0", "9", "_", "-"}

IdLen == 11

Schemes == {"https://", "http://"}

\* (?:https?://)?(?:www\.)?<host and path>([a-zA-Z0-9_-]{11}) under
\* re.match: the id the pattern captures, or nothing when it does not match
Match(host_path, s) ==
    LET s1 == IF s # <<>> /\ Head(s) \in Schemes THEN Tail(s) ELSE s
        s2 == IF s1 # <<>> /\ Head(s1) = "www." THEN Tail(s1) ELSE s1
    IN  IF /\ s2 # <<>>
           /\ Head(s2) = host_path
           /\ Len(s2) >= IdLen + 1
           /\ \A i \in 2..(IdLen + 1) : s2[i] \in IdChars
        THEN SubSeq(s2, 2, IdLen + 1)
        ELSE <<>>

\* the first pattern of the list that matches gives the id
RECURSIVE FirstMatch(_, _)
FirstMatch(pats, s) ==
    IF pats = <<>> THEN <<>>
    ELSE IF Match(Head(pats), s) # <<>> THEN Match(Head(pats), s)
    ELSE FirstMatch(Tail(pats), s)

\* VideoService.YOUTUBE_PATTERNS
YOUTUBE_PATTERNS ==
    <<"youtube.com/watch?v=", "youtu.be/", "youtube.com/embed/", "youtube.com/v/">>

\* the patterns get_video_by_url writes out again
patterns ==
    <<"youtube.com/watch?v=", "youtu.be/", "youtube.com/embed/", "youtube.com/v/">>

\* VideoService._is_valid_youtube_url
is_valid_youtube_url(url) ==
    url # <<>> /\ FirstMatch(YOUTUBE_PATTERNS, Strip(url)) # <<>>

\* VideoService._extract_video_id, for a URL that is valid
extract_video_id(url) == FirstMatch(YOUTUBE_PATTERNS, Strip(url))

NoVideos == <<>>

NoRow == [id |-> <<>>, youtube_url |-> <<>>, title |-> "none", transcript_text |-> "none"]

\* SELECT * FROM videos WHERE id = ?
RowOf(table, video_id) ==
    IF \E i \in 1..Len(table) : table[i].id = video_id
    THEN table[CHOOSE i \in 1..Len(table) : table[i].id = video_id]
    ELSE NoRow

\* a lookup by the URL as it was stored
get_video_by_url_as_stored(table, youtube_url) ==
    IF \E i \in 1..Len(table) : table[i].youtube_url = youtube_url
    THEN table[CHOOSE i \in 1..Len(table) : table[i].youtube_url = youtube_url]
    ELSE NoRow

\* DatabaseManager.get_video_by_url: the row of the id in the URL, or None
get_video_by_url(table, youtube_url) ==
    IF FirstMatch(patterns, Strip(youtube_url)) = <<>> THEN NoRow
    ELSE RowOf(table, FirstMatch(patterns, Strip(youtube_url)))

\* DatabaseManager.save_video: INSERT ... ON CONFLICT (id) DO UPDATE
save_video(table, video_id, youtube_url, title, transcript) ==
    LET row == [id |-> video_id, youtube_url |-> youtube_url,
                title |-> title, transcript_text |-> transcript]
    IN  IF \E i \in 1..Len(table) : table[i].id = video_id
        THEN [i \in 1..Len(table) |->
                 IF table[i].id = video_id THEN row ELSE table[i]]
        ELSE Append(table, row)

VideoA == <<"a", "b", "A", "Z", "0", "9", "_", "-", "a", "b", "A">>
VideoB == <<"b", "a", "A", "Z", "0", "9", "_", "-", "a", "b", "A">>

\* the URLs a caller passes: three forms of one video, one of them with
\* blanks around it and a parameter behind the id, a second video, and
\* two URLs no pattern accepts
Urls ==
    { <<"https://", "www.", "youtube.com/watch?v=">> \o VideoA,
      <<"youtu.be/">> \o VideoA,
      <<" ", "http://", "youtube.com/embed/">> \o VideoA \o <<"&", "t", " ">>,
      <<"https://", "youtube.com/v/">> \o VideoB,
      <<"https://", "vimeo.com/">> \o VideoA,
      <<"https://", "www.", "youtube.com/watch?v=">> \o SubSeq(VideoA, 1, 10) }

\* the titles the metadata of a video can show when it is fetched
Titles == {"first title", "later title"}

\* what faster-whisper hears in the audio of a video
Heard(video_id) == IF video_id = VideoA THEN "words of A" ELSE "words of B"

(***************************************************************************)
(* State.  store: the entries of the Chroma collection ("db", behind       *)
(* RAG_SERVICE) and of the InMemoryVectorStore ("im", behind               *)
(* RAG_SERVICE_IM), both created once when main.py is loaded.  calls: the  *)
(* requests, each with its position in its handler and the handler's       *)
(* locals.  nextId: the ids handed out so far.  session: the uploaded-file *)
(* chat the user is in.                                                    *)
(***************************************************************************)
VARIABLES store, calls, nextId, session, videos, transcribes,
          summaries, streams, local_videos, videos_dir, uploads,
          clock, audio_files, downloads

\* the file_summaries table of the database and the generators of
\* process_file_stream
digest == <<summaries, streams>>

\* the local_videos table of the database, the files of the videos
\* directory and the calls of upload_video
library == <<local_videos, videos_dir, uploads>>

\* the clock, the files of /tmp/summa_audio and the calls of download_audio
audio == <<clock, audio_files, downloads>>

\* the videos table of the database and the calls of
\* transcribe_video_with_cache; with the rest, what the RAG handlers leave
\* alone
media == <<videos, transcribes, digest, library, audio>>

vars == <<store, calls, nextId, session, media>>

CallIds == 1..MaxCalls

NoResult == [status |-> "none"]

\* the generators of process_file_stream a run creates at most
MaxStreams == 2

StreamIds == 1..MaxStreams

\* no row of file_summaries for a path
NoSummary == [status |-> "none"]

\* the paths a caller sends to POST /files/summary
StreamPaths == {FNote.filename, FTodo.filename, FEmpty.filename, PMissing}

\* what llm.stream(messages) hands out, fragment by fragment, if it does
\* not fail on the way
Streamed == { << <<"a">> >>, << <<"a">>, <<" ", "b">> >> }

\* the calls of upload_video a run makes at most
MaxUploads == 2

UploadIds == 1..MaxUploads

\* a slot of upload_video that no call has taken
NotUploaded ==
    [pc |-> "idle", filename |-> <<>>, mime_type |-> "none", content |-> "none",
     file_hash |-> <<>>, video_id |-> <<>>, stored_path |-> <<>>,
     stored |-> FALSE, result |-> NoResult]

\* the calls of download_audio a run makes at most
MaxDownloads == 2

DownloadIds == 1..MaxDownloads

\* the seconds the clock can move on
MaxClock == 1

\* a slot of download_audio that no call has taken
NotDownloaded ==
    [pc |-> "idle", url |-> <<>>, timestamp |-> 0, output_path |-> <<>>,
     error |-> "none"]

\* a generator of process_file_stream that no request has created
NotStreaming ==
    [pc |-> "idle", path |-> <<>>, content |-> <<>>, pending |-> <<>>,
     full_summary |-> <<>>, yielded |-> <<>>, saved |-> FALSE,
     error |-> "none"]

Idle ==
    [op |-> "none", pc |-> "idle", inmemory |-> FALSE, target |-> "none",
     session |-> 0, paths |-> <<>>, file |-> NoFile, query |-> <<>>,
     docs |-> <<>>, content |-> <<>>, chunks |-> <<>>, results |-> <<>>,
     k |-> 0, context_text |-> <<>>, messages |-> <<>>, searched |-> FALSE,
     result |-> NoResult, error |-> "none", cause |-> "none", status |-> 0,
     detail |-> <<>>]

\* a slot of transcribe_video_with_cache that no call has taken
NotCalled ==
    [pc |-> "idle", url |-> <<>>, video_id |-> <<>>, title |-> "none",
     transcript |-> "none", fetched |-> FALSE, downloaded |-> FALSE,
     transcribed |-> FALSE, result |-> NoResult, error |-> "none"]

Init ==
    /\ store = [t \in {"db", "im"} |-> <<>>]
    /\ calls = [c \in CallIds |-> Idle]
    /\ nextId = 1
    /\ session = 1
    /\ videos = NoVideos
    /\ transcribes = [c \in TranscribeIds |-> NotCalled]
    /\ summaries = [path \in StreamPaths |-> NoSummary]
    /\ streams = [s \in StreamIds |-> NotStreaming]
    /\ local_videos = <<>>
    /\ videos_dir = {}
    /\ uploads = [u \in UploadIds |-> NotUploaded]
    /\ clock = 0
    /\ audio_files = {}
    /\ downloads = [d \in DownloadIds |-> NotDownloaded]

\* the request's inmemory field after the defaults of QueryRequest,
\* IngestRequest and the query parameter of rag_ingest_uploaded_file
FlagValue(supplied, default) ==
    IF supplied = "true" THEN TRUE
    ELSE IF supplied = "false" THEN FALSE
    ELSE default

\* an ingest that always takes the durable service
IngestServiceDurable(inmemory) == "db"

\* rag_service = RAG_SERVICE_IM if request.inmemory else RAG_SERVICE
IngestService(inmemory) == IF inmemory THEN "im" ELSE "db"

\* rag_service = RAG_SERVICE_IM if inmemory else RAG_SERVICE
UploadService(inmemory) == IF inmemory THEN "im" ELSE "db"

\* if request.inmemory: RAG_SERVICE_IM.query_with_context(...) else RAG_SERVICE
QueryService(inmemory) == IF inmemory THEN "im" ELSE "db"

\* return RAG_SERVICE.query_with_context_stream(request.query)
StreamService(inmemory) == "db"

\* RagService defines ingest_files, ingest_uploaded_file, _split_documents,
\* _vector_search and query_with_context, and no other method
RagServiceMethods ==
    {"ingest_files", "ingest_uploaded_file", "_split_documents",
     "_vector_search", "query_with_context"}

\* the except clauses of rag_ingest and rag_ingest_uploaded_file
IngestStatus(exc) ==
    IF exc = "FileNotFoundError" THEN 404
    ELSE IF exc = "ValueError" THEN 400
    ELSE 500

\* the except clause of rag_query
QueryStatus(exc) == 500

\* str(e): the text an exception carries, which names what went wrong
Str(exc) == <<exc>>

\* HTTPException(status_code=..., detail=str(e)): the body of the answer
Detail(exc) == Str(exc)

\* a request starts in the lowest free slot
Free(c) ==
    /\ calls[c].pc = "idle"
    /\ \A d \in CallIds : d < c => calls[d].pc # "idle"

Running(c, op, pc) == calls[c].op = op /\ calls[c].pc = pc

\* the handler's locals are gone when it returns or raises; an error that
\* no function below rewrapped is its own cause
Ended(call, pc, result, exc, code) ==
    [call EXCEPT !.pc = pc, !.result = result, !.error = exc, !.status = code,
                 !.cause = IF @ = "none" THEN exc ELSE @,
                 !.session = 0, !.docs = <<>>, !.content = <<>>, !.chunks = <<>>,
                 !.results = <<>>, !.context_text = <<>>, !.messages = <<>>]

Doc(text, source) == [page_content |-> text, metadata |-> [source |-> source]]

(***************************************************************************)
(* RagService.ingest_files and ingest_uploaded_file, behind POST           *)
(* /rag/ingest and POST /rag/ingest_uploaded_file.                         *)
(***************************************************************************)
\* the return statement of ingest_files
ingest_files_return(ids, paths) ==
    [status |-> "success", document_ids |-> ids,
     message |-> [text |-> "Successfully ingested {} files.", n |-> Len(paths)]]

\* a return that hands back the stripped text instead of the extracted one
ingest_uploaded_file_return_stripped(ids, content, file) ==
    [status |-> "success", document_ids |-> ids,
     message |-> [text |-> "Successfully ingested uploaded file.", n |-> 1],
     content |-> Strip(content), filename |-> file.filename]

\* the return statement of ingest_uploaded_file
ingest_uploaded_file_return(ids, content, file) ==
    [status |-> "success", document_ids |-> ids,
     message |-> [text |-> "Successfully ingested uploaded file.", n |-> 1],
     content |-> content, filename |-> file.filename]

\* an except clause that reports success with the ids it has (none)
ingest_swallow(call, exc) ==
    Ended(call, "done",
          [status |-> "success", document_ids |-> <<>>,
           message |-> [text |-> "Successfully ingested {} files.", n |-> 0]],
          exc, 201)

\* except Exception as e: raise e, and the handler's HTTPException
ingest_raise(call, exc) ==
    [Ended(call, "failed", NoResult, exc, IngestStatus(exc))
        EXCEPT !.detail = Detail(exc)]

rag_ingest(c, paths, supplied) ==
    /\ Free(c)
    /\ LET inmemory == FlagValue(supplied, FALSE)
       IN  calls' = [calls EXCEPT ![c] =
                [Idle EXCEPT !.op = "ingest", !.pc = "validating",
                             !.inmemory = inmemory,
                             !.target = IngestService(inmemory),
                             !.session = session, !.paths = paths]]
    /\ UNCHANGED <<store, nextId, session, media>>

\* utils.test_api()
TestApi(c) ==
    /\ Running(c, "ingest", "validating")
    /\ \/ calls' = [calls EXCEPT ![c].pc = "extracting"]
       \/ calls' = [calls EXCEPT ![c] = ingest_raise(@, "ConnectionError")]
    /\ UNCHANGED <<store, nextId, session, media>>

\* mutant of Fetch: every document goes into the index as soon as it is
\* fetched
FetchAndAdd(c) ==
    /\ calls[c].op = "ingest" /\ calls[c].pc = "extracting"
    /\ Len(calls[c].docs) < Len(calls[c].paths)
    /\ LET path == calls[c].paths[Len(calls[c].docs) + 1]
           got == get_file_content(path)
           doc == [page_content |-> got.content, metadata |-> [source |-> path]]
           chunks == split_documents(<<doc>>)
       IN  \/ /\ got.ok
              /\ calls' = [calls EXCEPT ![c].docs = Append(@, doc)]
              /\ store' = [store EXCEPT ![calls[c].target] =
                    @ \o [i \in 1..Len(chunks) |->
                            [id |-> nextId + i - 1,
                             page_content |-> chunks[i].page_content,
                             metadata |-> chunks[i].metadata,
                             vector |-> Embed(chunks[i].page_content),
                             call |-> c, session |-> calls[c].session]]]
              /\ nextId' = nextId + Len(chunks)
           \/ /\ ~got.ok
              /\ calls' = [calls EXCEPT ![c] =
                    ingest_raise([@ EXCEPT !.cause = got.cause], got.exc)]
              /\ UNCHANGED <<store, nextId>>
    /\ UNCHANGED <<session, media>>

\* one round of the loop over paths
Fetch(c) ==
    /\ Running(c, "ingest", "extracting")
    /\ Len(calls[c].docs) < Len(calls[c].paths)
    /\ LET path == calls[c].paths[Len(calls[c].docs) + 1]
           got == get_file_content(path)
       IN  \/ /\ got.ok
              /\ calls' = [calls EXCEPT ![c].docs = Append(@, Doc(got.content, path))]
           \/ /\ ~got.ok
              /\ calls' = [calls EXCEPT ![c] =
                    ingest_raise([@ EXCEPT !.cause = got.cause], got.exc)]
    /\ UNCHANGED <<store, nextId, session, media>>

rag_ingest_uploaded_file(c, file, supplied) ==
    /\ Free(c)
    /\ LET inmemory == FlagValue(supplied, TRUE)
       IN  calls' = [calls EXCEPT ![c] =
                [Idle EXCEPT !.op = "upload", !.pc = "extracting",
                             !.inmemory = inmemory,
                             !.target = UploadService(inmemory),
                             !.session = session, !.file = file]]
    /\ UNCHANGED <<store, nextId, session, media>>

\* content = self.local_file_service.get_uploaded_file_content(file)
Extract(c) ==
    /\ Running(c, "upload", "extracting")
    /\ calls[c].docs = <<>>
    /\ LET got == get_uploaded_file_content(calls[c].file)
       IN  \/ /\ got.ok
              /\ calls' = [calls EXCEPT
                    ![c].content = got.content,
                    ![c].docs = <<Doc(got.content, calls[c].file.filename)>>,
                    ![c].pc = "chunking"]
           \/ /\ ~got.ok
              /\ calls' = [calls EXCEPT ![c] =
                    ingest_raise([@ EXCEPT !.cause = got.cause], got.exc)]
    /\ UNCHANGED <<store, nextId, session, media>>

\* a split that does not wait for the loop over the paths to end
SplitEarly(c) ==
    /\ \/ /\ calls[c].op = "ingest" /\ calls[c].pc = "extracting"
          /\ Len(calls[c].docs) >= 1
       \/ calls[c].op = "upload" /\ calls[c].pc = "chunking"
    /\ calls' = [calls EXCEPT ![c].chunks = split_documents(calls[c].docs),
                              ![c].pc = "storing"]
    /\ UNCHANGED <<store, nextId, session, media>>

\* chunks = self._split_documents(docs)
Split(c) ==
    /\ \/ /\ Running(c, "ingest", "extracting")
          /\ Len(calls[c].docs) = Len(calls[c].paths)
       \/ Running(c, "upload", "chunking")
    /\ calls' = [calls EXCEPT ![c].chunks = split_documents(calls[c].docs),
                              ![c].pc = "storing"]
    /\ UNCHANGED <<store, nextId, session, media>>

\* an add that writes the index back as the chunks of this call alone
AddOverwrite(c) ==
    /\ calls[c].pc = "storing"
    /\ LET call == calls[c]
           n == Len(call.chunks)
           ids == [i \in 1..n |-> nextId + i - 1]
           result == IF call.op = "ingest"
                     THEN [status |-> "success", document_ids |-> ids,
                           message |-> [text |-> "Successfully ingested {} files.",
                                        n |-> Len(call.paths)]]
                     ELSE [status |-> "success", document_ids |-> ids,
                           message |-> [text |-> "Successfully ingested uploaded file.",
                                        n |-> 1],
                           content |-> call.content, filename |-> call.file.filename]
       IN  \/ /\ call.chunks # <<>> \/ call.target = "im"
              /\ store' = [store EXCEPT ![call.target] =
                    [i \in 1..n |-> [id |-> ids[i],
                                     page_content |-> call.chunks[i].page_content,
                                     metadata |-> call.chunks[i].metadata,
                                     vector |-> Embed(call.chunks[i].page_content),
                                     call |-> c, session |-> call.session]]]
              /\ nextId' = nextId + n
              /\ calls' = [calls EXCEPT ![c] =
                    [@ EXCEPT !.pc = "done", !.result = result, !.status = 201,
                              !.session = 0, !.docs = <<>>, !.content = <<>>,
                              !.chunks = <<>>]]
           \/ /\ call.chunks # <<>>
              /\ calls' = [calls EXCEPT ![c] =
                    [@ EXCEPT !.pc = "failed", !.error = "APIConnectionError",
                              !.cause = "APIConnectionError", !.status = 500,
                              !.detail = <<"APIConnectionError">>,
                              !.session = 0, !.docs = <<>>, !.content = <<>>,
                              !.chunks = <<>>]]
              /\ UNCHANGED <<store, nextId>>
           \/ /\ call.chunks = <<>> /\ call.target = "db"
              /\ calls' = [calls EXCEPT ![c] =
                    [@ EXCEPT !.pc = "failed", !.error = "ValueError",
                              !.cause = "ValueError", !.status = 400,
                              !.detail = <<"ValueError">>,
                              !.session = 0, !.docs = <<>>, !.content = <<>>,
                              !.chunks = <<>>]]
              /\ UNCHANGED <<store, nextId>>
    /\ UNCHANGED <<session, media>>

\* document_ids = self.vectorstore.add_documents(chunks), and the return
Add(c) ==
    /\ calls[c].pc = "storing"
    /\ LET call == calls[c]
           n == Len(call.chunks)
           ids == FreshIds(n, nextId)
           result == IF call.op = "ingest"
                     THEN ingest_files_return(ids, call.paths)
                     ELSE ingest_uploaded_file_return(ids, call.content, call.file)
       IN  \/ /\ AddCanSucceed(call.target, call.chunks)
              /\ store' = [store EXCEPT ![call.target] =
                                @ \o NewEntries(call.chunks, ids, c, call.session)]
              /\ nextId' = nextId + n
              /\ calls' = [calls EXCEPT ![c] = Ended(@, "done", result, "none", 201)]
           \/ /\ \E exc \in AddErrors(call.target, call.chunks) :
                    calls' = [calls EXCEPT ![c] = ingest_raise(@, exc)]
              /\ UNCHANGED <<store, nextId>>
    /\ UNCHANGED <<session, media>>

(***************************************************************************)
(* RagService.query_with_context behind POST /rag/query, and POST          *)
(* /rag/query_stream.                                                      *)
(***************************************************************************)
\* query_with_context(self, query, k = 4), called without k
DefaultK == 4

SourcePrefix == " (Source: "

\* a suffix that leaves the source out
SuffixedWithoutSource(doc) ==
    [doc EXCEPT !.page_content = @ \o <<SourcePrefix>> \o <<")">>]

\* doc.page_content = f"{doc.page_content} (Source: {doc.metadata['source']})"
Suffixed(doc) ==
    [doc EXCEPT !.page_content = @ \o <<SourcePrefix>> \o doc.metadata.source \o <<")">>]

\* "\n\n".join([doc.page_content for doc in results])
ContextText(results) ==
    Join(<<NL, NL>>, [i \in 1..Len(results) |-> results[i].page_content])

Instructions == "You are a helpful assistant ... professional.\n\n"

\* messages whose user part is the query without the blanks around it
MessagesQueryStripped(query, context_text) ==
    << [role |-> "system",
        content |-> <<"You are a helpful assistant ... professional.\n\n",
                      "<context>", "\n">> \o context_text
                      \o <<"\n", "</context>">>],
       [role |-> "user",
        content |-> SelectSeq(query, LAMBDA ch : ch \notin {" ", "\n"})] >>

\* the messages of LLMService.llm_query_with_context
Messages(query, context_text) ==
    << [role |-> "system",
        content |-> <<Instructions, "<context>", NL>> \o context_text
                      \o <<NL, "</context>">>],
       [role |-> "user", content |-> query] >>

\* the return statement of llm_query_with_context
llm_return(answer) == [status |-> "success", response |-> Strip(answer)]

\* except Exception as e: raise HTTPException(status_code=500, ...)
query_raise(call, exc) ==
    [Ended(call, "failed", NoResult, exc, QueryStatus(exc))
        EXCEPT !.detail = Detail(exc)]

rag_query(c, query, supplied) ==
    /\ Free(c)
    /\ LET inmemory == FlagValue(supplied, FALSE)
       IN  calls' = [calls EXCEPT ![c] =
                [Idle EXCEPT !.op = "query", !.pc = "searching",
                             !.inmemory = inmemory,
                             !.target = QueryService(inmemory),
                             !.session = session, !.query = query,
                             !.k = DefaultK]]
    /\ UNCHANGED <<store, nextId, session, media>>

\* a search whose failure is noted and passed over
SearchPassOver(c) ==
    /\ calls[c].op = "query" /\ calls[c].pc = "searching"
    /\ \E got \in vector_search(store[calls[c].target], calls[c].query, calls[c].k) :
          calls' = [calls EXCEPT ![c].results = got.docs,
                                 ![c].searched = TRUE,
                                 ![c].error = got.exc,
                                 ![c].pc = "composing"]
    /\ UNCHANGED <<store, nextId, session, media>>

\* results = self._vector_search(query, k=k)
Search(c) ==
    /\ Running(c, "query", "searching")
    /\ \E got \in vector_search(store[calls[c].target], calls[c].query, calls[c].k) :
          \/ /\ got.ok
             /\ calls' = [calls EXCEPT ![c].results = got.docs,
                                       ![c].searched = TRUE,
                                       ![c].pc = "composing"]
          \/ /\ ~got.ok
             /\ calls' = [calls EXCEPT ![c] =
                   query_raise([@ EXCEPT !.searched = TRUE], got.exc)]
    /\ UNCHANGED <<store, nextId, session, media>>

\* mutant of Compose: the search handed back the stored entries themselves,
\* so the suffix is written into the index
ComposeInPlace(c) ==
    /\ calls[c].op = "query" /\ calls[c].pc = "composing"
    /\ LET found == calls[c].results
           context_text ==
               Join(<<NL, NL>>,
                    [i \in 1..Len(found) |->
                        found[i].page_content \o <<" (Source: ">>
                            \o found[i].metadata.source \o <<")">>])
           hit(e) == \E i \in 1..Len(found) : found[i].id = e.id
       IN  /\ calls' = [calls EXCEPT ![c].context_text = context_text,
                                     ![c].messages = Messages(calls[c].query, context_text),
                                     ![c].pc = "invoking"]
           /\ store' = [store EXCEPT ![calls[c].target] =
                 [j \in 1..Len(@) |->
                    IF hit(@[j])
                    THEN [@[j] EXCEPT !.page_content =
                            @ \o <<" (Source: ">> \o store[calls[c].target][j].metadata.source
                              \o <<")">>]
                    ELSE @[j]]]
    /\ UNCHANGED <<nextId, session, media>>

\* the loop over results, the join, and the messages for the chat model
Compose(c) ==
    /\ Running(c, "query", "composing")
    /\ LET results == [i \in 1..Len(calls[c].results) |-> Suffixed(calls[c].results[i])]
           context_text == ContextText(results)
       IN  calls' = [calls EXCEPT ![c].results = results,
                                  ![c].context_text = context_text,
                                  ![c].messages = Messages(calls[c].query, context_text),
                                  ![c].pc = "invoking"]
    /\ UNCHANGED <<store, nextId, session, media>>

\* response = self.llm.invoke(messages), and the return
Invoke(c) ==
    /\ Running(c, "query", "invoking")
    /\ \/ \E answer \in Answers :
             calls' = [calls EXCEPT ![c] =
                          Ended(@, "done", llm_return(answer), "none", 200)]
       \/ calls' = [calls EXCEPT ![c] = query_raise(@, "APIConnectionError")]
    /\ UNCHANGED <<store, nextId, session, media>>

\* the whole handler: RagService has no method query_with_context_stream,
\* so the attribute lookup on RAG_SERVICE raises and the request ends in 500
rag_query_stream(c, query, supplied) ==
    /\ Free(c)
    /\ "query_with_context_stream" \notin RagServiceMethods
    /\ LET inmemory == FlagValue(supplied, FALSE)
       IN  calls' = [calls EXCEPT ![c] =
                [Idle EXCEPT !.op = "stream", !.pc = "failed",
                             !.inmemory = inmemory,
                             !.target = StreamService(inmemory),
                             !.query = query,
                             !.error = "AttributeError",
                             !.cause = "AttributeError", !.status = 500,
                             !.detail = <<"Internal Server Error">>]]
    /\ UNCHANGED <<store, nextId, session, media>>

\* the user leaves the uploaded-file chat and a new one begins; no handler
\* of the backend runs, and RAG_SERVICE_IM stays as it is
NewSession ==
    /\ session < MaxSessions
    /\ session' = session + 1
    /\ UNCHANGED <<store, calls, nextId, media>>

Next ==
    \/ \E c \in CallIds, paths \in PathLists, supplied \in Supplied :
          rag_ingest(c, paths, supplied)
    \/ \E c \in CallIds, file \in Uploads, supplied \in Supplied :
          rag_ingest_uploaded_file(c, file, supplied)
    \/ \E c \in CallIds, query \in Queries, supplied \in Supplied :
          rag_query(c, query, supplied)
    \/ \E c \in CallIds, query \in Queries, supplied \in Supplied :
          rag_query_stream(c, query, supplied)
    \/ \E c \in CallIds : TestApi(c)
    \/ \E c \in CallIds : Fetch(c)
    \/ \E c \in CallIds : Extract(c)
    \/ \E c \in CallIds : Split(c)
    \/ \E c \in CallIds : Add(c)
    \/ \E c \in CallIds : Search(c)
    \/ \E c \in CallIds : Compose(c)
    \/ \E c \in CallIds : Invoke(c)

Spec == Init /\ [][Next]_vars

\* the same requests, with the user moving from one uploaded-file chat to
\* the next
NextChats == Next \/ NewSession

SpecChats == Init /\ [][NextChats]_vars

(***************************************************************************)
(* The same requests when the API behind utils.API_URL may stay silent.    *)
(* test_api and get_file_content call requests.get(url) without a timeout, *)
(* and requests waits for an answer without limit; the embedding and chat  *)
(* clients bound their wait themselves and raise, which the steps above    *)
(* cover with APIConnectionError.                                          *)
(***************************************************************************)
\* resp = requests.get(...) on an endpoint that never answers
Wait(c) ==
    /\ \/ Running(c, "ingest", "validating")
       \/ /\ Running(c, "ingest", "extracting")
          /\ Len(calls[c].docs) < Len(calls[c].paths)
    /\ calls' = [calls EXCEPT ![c].pc = "blocked"]
    /\ UNCHANGED <<store, nextId, session, media>>

NextSilent == Next \/ \E c \in CallIds : Wait(c)

SpecSilent == Init /\ [][NextSilent]_vars

(***************************************************************************)
(* One caller at a time against the durable index: a script such as        *)
(* test_vector_search.py or test_services.py that ingests notes, searches  *)
(* and asks, each request ending before the next begins.  The requests     *)
(* run in slot 1 with the steps of the handlers above.                     *)
(***************************************************************************)
\* the entries the durable index holds at most
MaxEntries == 5

\* the note of test_vector_search.py: the one text that holds the phrase
\* the caller asks for
FHorizon == File(<<"h", ".", "t", "x", "t">>, <<"a", "a", " ", "b">>, <<>>, FALSE)

\* a PDF file the reader cannot parse
FTorn == File(<<"c", ".", "p", "d", "f">>, <<>>, <<>>, TRUE)

Notes == {FHorizon, FPdf, FTorn}

\* the k a caller of _vector_search passes
Ks == {1, 3, DefaultK}

\* the query texts the one caller asks, one of them with blanks around it
Asked == Queries \cup { <<" ", "b", NL>> }

Finished(c) == calls[c].pc \in {"idle", "done", "failed"}

\* the chunks ingest_uploaded_file would hand to the index
UploadChunks(file) ==
    LET got == get_uploaded_file_content(file)
    IN  IF got.ok THEN split_documents(<<Doc(got.content, file.filename)>>)
        ELSE <<>>

\* service.ingest_uploaded_file(file) on the durable service
serial_ingest_uploaded_file(file) ==
    /\ Finished(1)
    /\ Len(store["db"]) + Len(UploadChunks(file)) <= MaxEntries
    /\ calls' = [calls EXCEPT ![1] =
            [Idle EXCEPT !.op = "upload", !.pc = "extracting",
                         !.target = UploadService(FALSE),
                         !.session = session, !.file = file]]
    /\ UNCHANGED <<store, nextId, session, media>>

\* service.query_with_context(query), k left at its default
serial_query_with_context(query) ==
    /\ Finished(1)
    /\ calls' = [calls EXCEPT ![1] =
            [Idle EXCEPT !.op = "query", !.pc = "searching",
                         !.target = QueryService(FALSE),
                         !.session = session, !.query = query,
                         !.k = DefaultK]]
    /\ UNCHANGED <<store, nextId, session, media>>

\* rag_service._vector_search(query, k), called on its own
direct_vector_search(query, k) ==
    /\ Finished(1)
    /\ calls' = [calls EXCEPT ![1] =
            [Idle EXCEPT !.op = "search", !.pc = "searching",
                         !.target = "db", !.query = query, !.k = k]]
    /\ UNCHANGED <<store, nextId, session, media>>

\* what the call hands back to its caller, or raises
SearchReturn(c) ==
    /\ Running(c, "search", "searching")
    /\ \E got \in vector_search(store[calls[c].target], calls[c].query, calls[c].k) :
          calls' = [calls EXCEPT ![c].results = got.docs,
                                 ![c].searched = TRUE,
                                 ![c].error = got.exc,
                                 ![c].cause = got.exc,
                                 ![c].pc = IF got.ok THEN "done" ELSE "failed"]
    /\ UNCHANGED <<store, nextId, session, media>>

NextSearch ==
    \/ \E file \in Notes : serial_ingest_uploaded_file(file)
    \/ \E query \in Asked : serial_query_with_context(query)
    \/ \E query \in Asked, k \in Ks : direct_vector_search(query, k)
    \/ SearchReturn(1)
    \/ Extract(1)
    \/ Split(1)
    \/ Add(1)
    \/ Search(1)
    \/ Compose(1)
    \/ Invoke(1)

SpecSearch == Init /\ [][NextSearch]_vars

(***************************************************************************)
(* The same caller uploading notes longer than one chunk: the splitter     *)
(* cuts them at blanks, and the pieces it merges are whole words.          *)
(***************************************************************************)
\* n times the character ch
Run(ch, n) == [i \in 1..n |-> ch]

\* the words of a note with a blank between them
Words(n, len) ==
    Join(<<" ">>, [i \in 1..n |-> Run(IF i % 2 = 1 THEN "a" ELSE "b", len)])

\* four words of 300 characters: 1203 characters of text
FScroll == File(<<"s", ".", "t", "x", "t">>, Words(4, 300), <<>>, FALSE)

\* eight words of 150 characters: 1207 characters of text
FLedger == File(<<"l", ".", "t", "x", "t">>, Words(8, 150), <<>>, FALSE)

Scrolls == {FScroll, FLedger, FHorizon}

NextChunks ==
    \/ \E file \in Scrolls : serial_ingest_uploaded_file(file)
    \/ Extract(1)
    \/ Split(1)
    \/ Add(1)

SpecChunks == Init /\ [][NextChunks]_vars

(***************************************************************************)
(* VideoService.transcribe_video_with_cache on a service that has a        *)
(* DatabaseManager attached.  Calls run side by side, each a step at a     *)
(* time.                                                                   *)
(***************************************************************************)
rag == <<store, calls, nextId, session>>

TranscribeFree(c) ==
    /\ transcribes[c].pc = "idle"
    /\ \A d \in TranscribeIds : d < c => transcribes[d].pc # "idle"

At(c, pc) == transcribes[c].pc = pc

\* raise: the call ends with the error, its locals gone
video_raise(call, exc) ==
    [call EXCEPT !.pc = "failed", !.error = exc, !.title = "none",
                 !.transcript = "none"]

\* return {"url": ..., "title": ..., "transcript": ..., "from_cache": ...}
video_return(call, title, transcript, from_cache) ==
    [call EXCEPT !.pc = "done", !.title = "none", !.transcript = "none",
                 !.result = [status |-> "returned", url |-> call.url,
                             title |-> title, transcript |-> transcript,
                             from_cache |-> from_cache]]

\* the call, the validation of the URL and the extraction of the id
transcribe_video_with_cache(c, url) ==
    /\ TranscribeFree(c)
    /\ transcribes' = [transcribes EXCEPT ![c] =
          IF is_valid_youtube_url(url)
          THEN [NotCalled EXCEPT !.pc = "checking", !.url = url,
                                 !.video_id = extract_video_id(url)]
          ELSE video_raise([NotCalled EXCEPT !.url = url], "ValueError")]
    /\ UNCHANGED <<videos, rag, digest, library, audio>>

\* cached_video = self.db_manager.get_video_by_url(url), and the return
\* when there is one
CheckCache(c) ==
    /\ At(c, "checking")
    /\ LET cached_video == get_video_by_url(videos, transcribes[c].url)
       IN  transcribes' = [transcribes EXCEPT ![c] =
              IF cached_video # NoRow
              THEN video_return(@, cached_video.title,
                                cached_video.transcript_text, TRUE)
              ELSE [@ EXCEPT !.pc = "fetching"]]
    /\ UNCHANGED <<videos, rag, digest, library, audio>>

\* metadata = self.get_video_info(url)
GetVideoInfo(c) ==
    /\ At(c, "fetching")
    /\ \/ \E title \in Titles :
             transcribes' = [transcribes EXCEPT ![c].title = title,
                                                ![c].fetched = TRUE,
                                                ![c].pc = "downloading"]
       \/ transcribes' = [transcribes EXCEPT ![c] =
             video_raise([@ EXCEPT !.fetched = TRUE], "Exception")]
    /\ UNCHANGED <<videos, rag, digest, library, audio>>

\* audio_path = self.download_audio(url)
DownloadAudio(c) ==
    /\ At(c, "downloading")
    /\ \/ transcribes' = [transcribes EXCEPT ![c].downloaded = TRUE,
                                             ![c].pc = "transcribing"]
       \/ transcribes' = [transcribes EXCEPT ![c] =
             video_raise([@ EXCEPT !.downloaded = TRUE], "Exception")]
    /\ UNCHANGED <<videos, rag, digest, library, audio>>

\* transcript = self.transcribe_audio(audio_path)
TranscribeAudio(c) ==
    /\ At(c, "transcribing")
    /\ \/ transcribes' = [transcribes EXCEPT
             ![c].transcript = Heard(transcribes[c].video_id),
             ![c].transcribed = TRUE,
             ![c].pc = "saving"]
       \/ transcribes' = [transcribes EXCEPT ![c] =
             video_raise([@ EXCEPT !.transcribed = TRUE], "Exception")]
    /\ UNCHANGED <<videos, rag, digest, library, audio>>

\* self.db_manager.save_video(...), the cleanup and the return
SaveVideo(c) ==
    /\ At(c, "saving")
    /\ LET call == transcribes[c]
       IN  /\ videos' = save_video(videos, call.video_id, call.url,
                                   call.title, call.transcript)
           /\ transcribes' = [transcribes EXCEPT ![c] =
                 video_return(@, call.title, call.transcript, FALSE)]
    /\ UNCHANGED <<rag, digest, library, audio>>

NextVideo ==
    \/ \E c \in TranscribeIds, url \in Urls : transcribe_video_with_cache(c, url)
    \/ \E c \in TranscribeIds : CheckCache(c)
    \/ \E c \in TranscribeIds : GetVideoInfo(c)
    \/ \E c \in TranscribeIds : DownloadAudio(c)
    \/ \E c \in TranscribeIds : TranscribeAudio(c)
    \/ \E c \in TranscribeIds : SaveVideo(c)

SpecVideo == Init /\ [][NextVideo]_vars

(***************************************************************************)
(* POST /files/summary: StreamingResponse draws the fragments of           *)
(* LLMService.process_file_stream one at a time, and closes the generator  *)
(* when the client goes away.  main.py builds the service with a database  *)
(* and a file service, so the generator's first branch is never taken.     *)
(***************************************************************************)
youtube == <<videos, transcribes>>

StreamFree(s) ==
    /\ streams[s].pc = "idle"
    /\ \A t \in StreamIds : t < s => streams[t].pc # "idle"

\* the generator stands at a yield, or has not been started
Suspended(s) ==
    \/ streams[s].pc \in {"created", "refusing"}
    \/ streams[s].pc = "streaming" /\ streams[s].yielded # <<>>

\* DatabaseManager.save_summary: INSERT ... ON CONFLICT (path) DO UPDATE
save_summary(table, path, summary, tags, model) ==
    [table EXCEPT ![path] = [status |-> "stored", path |-> path,
                             summary_text |-> summary, tags |-> tags,
                             model_used |-> model]]

\* f"Error generating summary: {str(e)}"
ErrorFragment == <<"Error generating summary: ", "Exception">>

\* llm_service.process_file_stream(request.path): the generator is made,
\* none of its code has run
process_file_stream(s, path) ==
    /\ StreamFree(s)
    /\ streams' = [streams EXCEPT ![s] =
            [NotStreaming EXCEPT !.pc = "created", !.path = path]]
    /\ UNCHANGED <<rag, youtube, library, audio, summaries>>

\* file_data = self.local_file_service.get_content(path) and the checks of
\* what it returned; the request to the chat model
GetContent(s) ==
    /\ streams[s].pc = "created"
    /\ LET got == get_content(streams[s].path)
       IN  IF ~got.ok
           THEN streams' = [streams EXCEPT ![s].pc = "failed",
                                           ![s].error = got.exc]
           ELSE IF got.content = <<>>
           THEN streams' = [streams EXCEPT
                    ![s].pc = "refusing",
                    ![s].yielded = << <<"Error: File is empty.">> >>]
           ELSE \E fragments \in Streamed :
                    streams' = [streams EXCEPT ![s].pc = "streaming",
                                               ![s].content = got.content,
                                               ![s].pending = fragments]
    /\ UNCHANGED <<rag, youtube, library, audio, summaries>>

\* the return after the message of a refusal
Refuse(s) ==
    /\ streams[s].pc = "refusing"
    /\ streams' = [streams EXCEPT ![s].pc = "done"]
    /\ UNCHANGED <<rag, youtube, library, audio, summaries>>

\* mutant of YieldChunk: the summary so far is saved with every fragment
YieldChunkSaving(s) ==
    /\ streams[s].pc = "streaming"
    /\ streams[s].pending # <<>>
    /\ LET chunk == Head(streams[s].pending)
       IN  /\ streams' = [streams EXCEPT
                 ![s].full_summary = @ \o chunk,
                 ![s].yielded = Append(@, chunk),
                 ![s].pending = Tail(@)]
           /\ summaries' = save_summary(summaries, streams[s].path,
                                        streams[s].full_summary \o chunk,
                                        <<>>, "local-llm")
    /\ UNCHANGED <<rag, youtube, library, audio>>

\* for chunk in self.generate_summary_stream(content):
\*     full_summary += chunk; yield chunk
YieldChunk(s) ==
    /\ streams[s].pc = "streaming"
    /\ streams[s].pending # <<>>
    /\ LET chunk == Head(streams[s].pending)
       IN  streams' = [streams EXCEPT
                 ![s].full_summary = @ \o chunk,
                 ![s].yielded = Append(@, chunk),
                 ![s].pending = Tail(@)]
    /\ UNCHANGED <<rag, youtube, library, audio, summaries>>

\* llm.stream raises: generate_summary_stream yields the error text as its
\* last fragment
YieldError(s) ==
    /\ streams[s].pc = "streaming"
    /\ streams[s].pending # <<>>
    /\ streams' = [streams EXCEPT
            ![s].full_summary = @ \o ErrorFragment,
            ![s].yielded = Append(@, ErrorFragment),
            ![s].pending = <<>>]
    /\ UNCHANGED <<rag, youtube, library, audio, summaries>>

\* the fragments are out: self.db_manager.save_summary(...) and the end of
\* the generator
SaveSummary(s) ==
    /\ streams[s].pc = "streaming"
    /\ streams[s].pending = <<>>
    /\ summaries' = save_summary(summaries, streams[s].path,
                                 streams[s].full_summary, <<>>, "local-llm")
    /\ streams' = [streams EXCEPT ![s].pc = "done", ![s].saved = TRUE]
    /\ UNCHANGED <<rag, youtube, library, audio>>

\* the client goes away: the generator is closed where it stands
CloseStream(s) ==
    /\ Suspended(s)
    /\ streams' = [streams EXCEPT ![s].pc = "closed"]
    /\ UNCHANGED <<rag, youtube, library, audio, summaries>>

NextSummary ==
    \/ \E s \in StreamIds, path \in StreamPaths : process_file_stream(s, path)
    \/ \E s \in StreamIds : GetContent(s)
    \/ \E s \in StreamIds : Refuse(s)
    \/ \E s \in StreamIds : YieldChunk(s)
    \/ \E s \in StreamIds : YieldError(s)
    \/ \E s \in StreamIds : SaveSummary(s)
    \/ \E s \in StreamIds : CloseStream(s)

SpecSummary == Init /\ [][NextSummary]_vars

(***************************************************************************)
(* LocalVideoService.upload_video over the local_videos table, whose       *)
(* file_hash column is UNIQUE, and the videos directory.  Calls run side   *)
(* by side, each a step at a time.                                         *)
(***************************************************************************)
SUPPORTED_MIME_TYPES ==
    {"video/mp4", "video/mpeg", "video/quicktime", "video/x-msvideo",
     "video/x-matroska", "video/webm"}

SUPPORTED_EXTENSIONS ==
    { <<".", "m", "p", "4">>, <<".", "a", "v", "i">>, <<".", "m", "k", "v">>,
      <<".", "m", "o", "v">>, <<".", "w", "e", "b", "m">>,
      <<".", "m", "p", "e", "g">>, <<".", "m", "p", "g">> }

\* LocalVideoService._validate_video_file; "none" is a MIME type left out
validate_video_file(filename, mime_type) ==
    /\ Lower(SplitExt(filename)) \in SUPPORTED_EXTENSIONS
    /\ mime_type = "none" \/ mime_type \in SUPPORTED_MIME_TYPES

\* LocalVideoService._compute_file_hash: the SHA-256 digest, one for each
\* content
compute_file_hash(content) == <<"sha256", content>>

\* str(uuid.uuid4()): an id no other call draws
uuid4(u) == <<"uuid", u>>

NoLocalVideo == [id |-> <<>>, filename |-> <<>>, stored_path |-> <<>>,
                 file_hash |-> <<>>, mime_type |-> "none"]

\* DatabaseManager.get_local_video_by_hash
get_local_video_by_hash(table, file_hash) ==
    IF \E i \in 1..Len(table) : table[i].file_hash = file_hash
    THEN table[CHOOSE i \in 1..Len(table) : table[i].file_hash = file_hash]
    ELSE NoLocalVideo

\* DatabaseManager.save_local_video: the INSERT, and False when the
\* database reports the constraint on id or on file_hash
save_local_video(table, row) ==
    IF \E i \in 1..Len(table) :
           table[i].file_hash = row.file_hash \/ table[i].id = row.id
    THEN [ok |-> FALSE, table |-> table]
    ELSE [ok |-> TRUE, table |-> Append(table, row)]

\* the files callers upload: a film under two names, a talk, and the film
\* under a name that is no video's
Clip(name, mime_type, content) ==
    [filename |-> name, mime_type |-> mime_type, content |-> content]

Clips ==
    { Clip(<<"a", ".", "m", "p", "4">>, "video/mp4", "film"),
      Clip(<<"b", ".", "m", "k", "v">>, "none", "film"),
      Clip(<<"c", ".", "m", "p", "4">>, "video/mp4", "talk"),
      Clip(<<"n", ".", "t", "x", "t">>, "text/plain", "film") }

UploadFree(u) ==
    /\ uploads[u].pc = "idle"
    /\ \A v \in UploadIds : v < u => uploads[v].pc # "idle"

upload_return(call, status, existing) ==
    [call EXCEPT !.pc = "done",
                 !.result = [status |-> status, existing_video |-> existing]]

beside == <<rag, youtube, digest, audio>>

\* the call, the validation and the hash; stored tells whether the table
\* held the content when the call began
upload_video(u, clip) ==
    /\ UploadFree(u)
    /\ LET call == [NotUploaded EXCEPT
                       !.filename = clip.filename, !.mime_type = clip.mime_type,
                       !.content = clip.content,
                       !.stored = get_local_video_by_hash(local_videos,
                                      compute_file_hash(clip.content)) # NoLocalVideo]
       IN  uploads' = [uploads EXCEPT ![u] =
               IF validate_video_file(clip.filename, clip.mime_type)
               THEN [call EXCEPT !.pc = "checking",
                                 !.file_hash = compute_file_hash(clip.content)]
               ELSE upload_return(call, "error", NoLocalVideo)]
    /\ UNCHANGED <<local_videos, videos_dir, beside>>

\* existing_video = self.db_manager.get_local_video_by_hash(file_hash),
\* and the id and the path of a new video
CheckDuplicate(u) ==
    /\ uploads[u].pc = "checking"
    /\ LET existing_video == get_local_video_by_hash(local_videos, uploads[u].file_hash)
       IN  uploads' = [uploads EXCEPT ![u] =
               IF existing_video # NoLocalVideo
               THEN upload_return(@, "duplicate", existing_video)
               ELSE [@ EXCEPT !.pc = "writing", !.video_id = uuid4(u),
                              !.stored_path = uuid4(u) \o SplitExt(uploads[u].filename)]]
    /\ UNCHANGED <<local_videos, videos_dir, beside>>

\* with open(stored_path, 'wb') as f: f.write(...): the file is written,
\* or open fails and there is no file, or the write fails and leaves what
\* it had written
WriteFile(u) ==
    /\ uploads[u].pc = "writing"
    /\ \/ /\ videos_dir' = videos_dir \cup
                  {[path |-> uploads[u].stored_path, whole |-> TRUE]}
          /\ uploads' = [uploads EXCEPT ![u].pc = "inserting"]
       \/ /\ videos_dir' = videos_dir
          /\ uploads' = [uploads EXCEPT ![u] = upload_return(@, "error", NoLocalVideo)]
       \/ /\ videos_dir' = videos_dir \cup
                  {[path |-> uploads[u].stored_path, whole |-> FALSE]}
          /\ uploads' = [uploads EXCEPT ![u] = upload_return(@, "error", NoLocalVideo)]
    /\ UNCHANGED <<local_videos, beside>>

\* stored_path.unlink()
Unlink(dir, path) == {f \in dir : f.path # path}

\* self.db_manager.save_local_video(...) and what follows it
InsertRecord(u) ==
    /\ uploads[u].pc = "inserting"
    /\ LET call == uploads[u]
           saved == save_local_video(local_videos,
                       [id |-> call.video_id, filename |-> call.filename,
                        stored_path |-> call.stored_path,
                        file_hash |-> call.file_hash,
                        mime_type |-> call.mime_type])
       IN  \/ /\ saved.ok
              /\ local_videos' = saved.table
              /\ videos_dir' = videos_dir
              /\ uploads' = [uploads EXCEPT ![u] =
                                upload_return(@, "success", NoLocalVideo)]
           \/ /\ ~saved.ok
              /\ local_videos' = local_videos
              /\ videos_dir' = Unlink(videos_dir, call.stored_path)
              /\ uploads' = [uploads EXCEPT ![u] =
                    upload_return(@, "duplicate",
                        get_local_video_by_hash(local_videos, call.file_hash))]
           \/ /\ local_videos' = local_videos
              /\ videos_dir' = Unlink(videos_dir, call.stored_path)
              /\ uploads' = [uploads EXCEPT ![u] =
                                upload_return(@, "error", NoLocalVideo)]
    /\ UNCHANGED beside

NextUpload ==
    \/ \E u \in UploadIds, clip \in Clips : upload_video(u, clip)
    \/ \E u \in UploadIds : CheckDuplicate(u)
    \/ \E u \in UploadIds : WriteFile(u)
    \/ \E u \in UploadIds : InsertRecord(u)

SpecUpload == Init /\ [][NextUpload]_vars

(***************************************************************************)
(* VideoService.download_audio and the cleanup of its caller: the name of  *)
(* the audio file is made of the second the call began in.  Calls run side *)
(* by side, each a step at a time, and the clock moves on between steps.   *)
(***************************************************************************)
\* temp_dir / f"audio_{timestamp}.mp3"
AudioPath(timestamp) == <<"/tmp/summa_audio/audio_", timestamp, ".mp3">>

DownloadFree(d) ==
    /\ downloads[d].pc = "idle"
    /\ \A e \in DownloadIds : e < d => downloads[e].pc # "idle"

\* the call, the validation of the URL, timestamp = int(time.time()) and
\* the output path
download_audio(d, url) ==
    /\ DownloadFree(d)
    /\ downloads' = [downloads EXCEPT ![d] =
          IF is_valid_youtube_url(url)
          THEN [NotDownloaded EXCEPT !.pc = "downloading", !.url = url,
                                     !.timestamp = clock,
                                     !.output_path = AudioPath(clock)]
          ELSE [NotDownloaded EXCEPT !.pc = "failed", !.url = url,
                                     !.error = "ValueError"]]
    /\ UNCHANGED <<rag, youtube, digest, library, clock, audio_files>>

\* ydl.download([url]) writes the audio of the video to the output path,
\* over what is there, and the path is returned; or the download fails
Download(d) ==
    /\ downloads[d].pc = "downloading"
    /\ \/ /\ audio_files' =
                {f \in audio_files : f.path # downloads[d].output_path}
                \cup {[path |-> downloads[d].output_path,
                       audio |-> extract_video_id(downloads[d].url)]}
          /\ downloads' = [downloads EXCEPT ![d].pc = "returned"]
       \/ /\ audio_files' = audio_files
          /\ downloads' = [downloads EXCEPT ![d].pc = "failed",
                                            ![d].error = "Exception"]
    /\ UNCHANGED <<rag, youtube, digest, library, clock>>

\* self._cleanup_audio_file(audio_path): os.remove if the path exists
cleanup_audio_file(d) ==
    /\ downloads[d].pc = "returned"
    /\ audio_files' = {f \in audio_files : f.path # downloads[d].output_path}
    /\ downloads' = [downloads EXCEPT ![d].pc = "cleaned"]
    /\ UNCHANGED <<rag, youtube, digest, library, clock>>

\* a second passes
Tick ==
    /\ clock < MaxClock
    /\ clock' = clock + 1
    /\ UNCHANGED <<rag, youtube, digest, library, audio_files, downloads>>

NextAudio ==
    \/ \E d \in DownloadIds, url \in Urls : download_audio(d, url)
    \/ \E d \in DownloadIds : Download(d)
    \/ \E d \in DownloadIds : cleanup_audio_file(d)
    \/ Tick

SpecAudio == Init /\ [][NextAudio]_vars

(***************************************************************************)
(* What the claims speak of.                                               *)
(***************************************************************************)
Targets == {"db", "im"}

AllEntries == UNION {{store[t][i] : i \in 1..Len(store[t])} : t \in Targets}

EntryOf(id) == CHOOSE e \in AllEntries : e.id = id

\* the entries a request added to the index it targets, in order
AddedBy(c) == SelectSeq(store[calls[c].target], LAMBDA e : e.call = c)

IdsOf(entries) == [i \in 1..Len(entries) |-> entries[i].id]

IdSet(c) == {calls[c].result.document_ids[i] :
                i \in 1..Len(calls[c].result.document_ids)}

IsIngest(c) == calls[c].op \in {"ingest", "upload"}

\* a query that holds what its search retrieved
Retrieved(c) ==
    calls[c].op = "query" /\ calls[c].pc \in {"composing", "invoking"}

\* the documents a request ingests, as far as extraction succeeds
RECURSIVE FetchedDocs(_)
FetchedDocs(paths) ==
    IF paths = <<>> THEN <<>>
    ELSE LET got == get_file_content(Head(paths))
         IN  IF got.ok THEN <<Doc(got.content, Head(paths))>> \o FetchedDocs(Tail(paths))
             ELSE <<>>

SourceDocs(c) ==
    IF calls[c].op = "ingest" THEN FetchedDocs(calls[c].paths)
    ELSE LET got == get_uploaded_file_content(calls[c].file)
         IN  IF got.ok THEN <<Doc(got.content, calls[c].file.filename)>> ELSE <<>>

\* C1: a chunk added by an ingest request with inmemory=true is never among
\* the chunks a query with inmemory=false retrieves, and a chunk added with
\* inmemory=false is never among those a query with inmemory=true retrieves.
IngestQueryIsolation ==
    \A c \in CallIds : Retrieved(c) =>
        \A i \in 1..Len(calls[c].results) :
            calls[EntryOf(calls[c].results[i].id).call].inmemory = calls[c].inmemory

\* a query has searched while the index of the other flag holds a chunk
IngestQueryIsolationWitness ==
    \E c, d \in CallIds :
        /\ Retrieved(c)
        /\ IsIngest(d) /\ calls[d].pc = "done"
        /\ calls[d].inmemory # calls[c].inmemory
        /\ AddedBy(d) # <<>>

\* C2: a query with inmemory=true never retrieves a chunk that was ingested
\* in an earlier uploaded-file chat than its own.
EphemeralSessionScoped ==
    \A c \in CallIds : (Retrieved(c) /\ calls[c].inmemory) =>
        \A i \in 1..Len(calls[c].results) :
            EntryOf(calls[c].results[i].id).session = calls[c].session

\* C3: every RAG entry point targets the ephemeral index exactly when the
\* inmemory flag of the request is true, and the durable index otherwise.
TargetFollowsFlag ==
    \A c \in CallIds : calls[c].op # "none" =>
        calls[c].target = (IF calls[c].inmemory THEN "im" ELSE "db")

\* C4: an ingest of a document whose extracted text is empty never ends in
\* a success result.
EmptyDocumentRejected ==
    \A c \in CallIds :
        (IsIngest(c) /\ \E i \in 1..Len(SourceDocs(c)) :
                            SourceDocs(c)[i].page_content = <<>>)
        => ~(calls[c].pc = "done" /\ calls[c].result.status = "success")

\* C5: an ingest request in which a step raised ends failed and without a
\* result; a result exists only for a request that is done, and it lists
\* the id of every chunk of every document of the request.
IngestAllOrNothing ==
    \A c \in CallIds : IsIngest(c) =>
        /\ calls[c].error # "none" =>
              /\ calls[c].pc = "failed"
              /\ calls[c].result = NoResult
              /\ calls[c].status >= 400
        /\ calls[c].pc # "done" => calls[c].result = NoResult
        /\ calls[c].pc = "done" =>
              /\ calls[c].result.status = "success"
              /\ calls[c].result.document_ids = IdsOf(AddedBy(c))
              /\ Len(calls[c].result.document_ids)
                    = Len(split_documents(SourceDocs(c)))

\* the embedding of the chunks failed after every path had been fetched
IngestAllOrNothingWitness ==
    \E c \in CallIds :
        /\ calls[c].op = "ingest"
        /\ calls[c].pc = "failed"
        /\ calls[c].error = "APIConnectionError"
        /\ Len(SourceDocs(c)) = 2

\* C6: a search of an index without entries retrieves the empty list, the
\* context built from it is empty, and a query fails only when the
\* embedding or the chat endpoint does not answer.
EmptyIndexSearch ==
    \A c \in CallIds : calls[c].op = "query" =>
        /\ (Retrieved(c) /\ store[calls[c].target] = <<>>) =>
              /\ calls[c].results = <<>>
              /\ calls[c].pc = "invoking" => calls[c].context_text = <<>>
        /\ calls[c].pc = "failed" => calls[c].error = "APIConnectionError"

\* a query of an index without entries has returned its answer
EmptyIndexSearchWitness ==
    \E c \in CallIds :
        /\ calls[c].op = "query"
        /\ calls[c].pc = "done"
        /\ calls[c].result.status = "success"
        /\ store[calls[c].target] = <<>>

\* the stored chunk is a chunk of the document ingested under its source
OriginatesFrom(e) ==
    \E i \in 1..Len(SourceDocs(e.call)) :
        LET doc == SourceDocs(e.call)[i]
            chunks == split_documents(<<doc>>)
        IN  /\ doc.metadata.source = e.metadata.source
            /\ \E j \in 1..Len(chunks) : chunks[j].page_content = e.page_content

WithSource(e) == e.page_content \o <<" (Source: ">> \o e.metadata.source \o <<")">>

\* C7: each retrieved chunk stands in the context as its stored text
\* followed by one suffix " (Source: <source_id>)", the source being the
\* path or the file name its document was ingested under.
ProvenanceSuffix ==
    \A c \in CallIds : (calls[c].op = "query" /\ calls[c].pc = "invoking") =>
        LET found == [i \in 1..Len(calls[c].results) |->
                         EntryOf(calls[c].results[i].id)]
        IN  /\ \A i \in 1..Len(found) :
                  /\ calls[c].results[i].page_content = WithSource(found[i])
                  /\ OriginatesFrom(found[i])
            /\ calls[c].context_text
                  = Join(<<NL, NL>>, [i \in 1..Len(found) |-> WithSource(found[i])])

\* the context of a query holds chunks of two different sources
ProvenanceSuffixWitness ==
    \E c \in CallIds :
        /\ calls[c].op = "query" /\ calls[c].pc = "invoking"
        /\ \E i, j \in 1..Len(calls[c].results) :
              calls[c].results[i].metadata.source # calls[c].results[j].metadata.source

\* C8: a streaming query that has ended, done or failed, began retrieval.
StreamReachesRetrieval ==
    \A c \in CallIds :
        (calls[c].op = "stream" /\ calls[c].pc \in {"done", "failed"})
        => calls[c].searched

\* C9: the result of a successful ingest_uploaded_file carries the extracted
\* text, which is the text whose chunks the call stored, and the name of
\* the uploaded file, which is the source of every stored chunk.
UploadResultContent ==
    \A c \in CallIds : (calls[c].op = "upload" /\ calls[c].pc = "done") =>
        LET r == calls[c].result
            mine == AddedBy(c)
            expect == split_documents(<<Doc(r.content, r.filename)>>)
        IN  /\ r.filename = calls[c].file.filename
            /\ r.content = get_uploaded_file_content(calls[c].file).content
            /\ r.document_ids = IdsOf(mine)
            /\ Len(mine) = Len(expect)
            /\ \A i \in 1..Len(mine) :
                  /\ mine[i].page_content = expect[i].page_content
                  /\ mine[i].metadata = expect[i].metadata

\* an upload whose text is not its own stripped form has stored a chunk
UploadResultContentWitness ==
    \E c \in CallIds :
        /\ calls[c].op = "upload" /\ calls[c].pc = "done"
        /\ calls[c].result.document_ids # <<>>
        /\ Strip(calls[c].result.content) # calls[c].result.content

SamePathsTwice(c, d) ==
    /\ c # d
    /\ calls[c].op = "ingest" /\ calls[d].op = "ingest"
    /\ calls[c].pc = "done" /\ calls[d].pc = "done"
    /\ calls[c].target = "db" /\ calls[d].target = "db"
    /\ calls[c].paths = calls[d].paths

\* C10: two successful ingests of the same paths into the durable index
\* return disjoint sets of ids, and the index holds the entries of both.
DuplicateIngestDistinctIds ==
    \A c, d \in CallIds : SamePathsTwice(c, d) =>
        /\ IdSet(c) \cap IdSet(d) = {}
        /\ \A id \in IdSet(c) \cup IdSet(d) :
              Cardinality({i \in 1..Len(store["db"]) : store["db"][i].id = id}) = 1
        /\ Len(store["db"]) >= Cardinality(IdSet(c)) + Cardinality(IdSet(d))
        /\ Len(AddedBy(c)) = Len(AddedBy(d))

\* the same two documents were ingested twice into the durable index
DuplicateIngestDistinctIdsWitness ==
    \E c, d \in CallIds :
        /\ SamePathsTwice(c, d)
        /\ Cardinality(IdSet(c)) = 2

\* the entry a returned Document is a copy of
Origin(doc) == EntryOf(doc.id)

\* a request that holds the Documents its search returned
HoldsResults(c) ==
    \/ calls[c].op = "query" /\ calls[c].pc \in {"composing", "invoking"}
    \/ calls[c].op = "search" /\ calls[c].pc = "done"

\* the text a note was ingested with
NoteText(source) ==
    get_uploaded_file_content(CHOOSE f \in Notes : f.filename = source).content

SourcesOf(index) == {index[i].metadata.source : i \in 1..Len(index)}

\* the phrase stands verbatim in the document of this source and in no
\* other document of the index
PhraseOnlyIn(source, phrase, index) ==
    /\ source \in SourcesOf(index)
    /\ Contains(NoteText(source), phrase)
    /\ \A other \in SourcesOf(index) \ {source} :
          ~Contains(NoteText(other), phrase)

RetrievesSource(c, source) ==
    \E j \in 1..Len(calls[c].results) :
        calls[c].results[j].metadata.source = source

Descending(c) ==
    LET index == store[calls[c].target]
        q == Embed(calls[c].query)
        res == calls[c].results
    IN  /\ \A i, j \in 1..Len(res) : i < j =>
              SimGE(q, Origin(res[i]).vector, Origin(res[j]).vector)
        /\ \A e \in 1..Len(index) :
              (\A i \in 1..Len(res) : res[i].id # index[e].id) =>
                  \A i \in 1..Len(res) :
                      SimGE(q, Origin(res[i]).vector, index[e].vector)

\* the chunks that stand in a context text
RECURSIVE ChunksIn(_)
ChunksIn(context_text) ==
    IF context_text = <<>> THEN 0
    ELSE (IF Head(context_text) = SourcePrefix THEN 1 ELSE 0)
         + ChunksIn(Tail(context_text))

ErrorsBubbleUnmodified ==
    \A c \in CallIds : calls[c].op \in {"ingest", "upload", "query"} =>
        /\ calls[c].pc = "failed" => calls[c].error = calls[c].cause
        /\ calls[c].cause # "none" =>
              calls[c].pc = "failed" /\ calls[c].result = NoResult

\* the extensions get_content and get_uploaded_file_content have a branch for
SupportedExts ==
    TextExts \cup { <<".", "p", "d", "f">>, <<".", "d", "o", "c", "x">>,
                    <<".", "p", "p", "t", "x">> }

UnsupportedFormat(file) == Lower(SplitExt(file.filename)) \notin SupportedExts

\* the request failed over what the caller sent: a file of a format that
\* is not supported or cannot be read, or a document without text
CallerFault(c) ==
    /\ calls[c].op = "upload"
    /\ \/ UnsupportedFormat(calls[c].file)
       \/ calls[c].file.corrupt
       \/ get_uploaded_file_content(calls[c].file).content = <<>>

\* the request failed because an endpoint behind the service did not answer
BackendFault(c) == calls[c].cause \in {"APIConnectionError", "ConnectionError"}

\* C14: an ingest request that failed over the caller's input is answered
\* with a 4xx status, and one that failed because the embedding endpoint or
\* the API was unavailable with a 5xx status.
IngestStatusByFault ==
    \A c \in CallIds : (IsIngest(c) /\ calls[c].pc = "failed") =>
        /\ BackendFault(c) => calls[c].status \in 500..599
        /\ (CallerFault(c) /\ ~BackendFault(c)) => calls[c].status \in 400..499

\* the message a caller is to read when no answer could be composed
CouldNotGenerate == "could not generate answer"

\* C15: a query whose chat completion fails is answered with the message
\* "could not generate answer", and the answer does not carry the text of
\* the exception.
ChatFailureMessage ==
    [][\A c \in CallIds :
          (/\ calls[c].op = "query" /\ calls[c].pc = "invoking"
           /\ calls'[c].pc = "failed") =>
             /\ Contains(calls'[c].detail, <<CouldNotGenerate>>)
             /\ ~Contains(calls'[c].detail, Str(calls'[c].error))]_vars

\* the files a request hands to the service
FilesOf(c) ==
    IF calls[c].op = "upload" THEN {calls[c].file}
    ELSE {f \in DiskFiles : \E i \in 1..Len(calls[c].paths) : calls[c].paths[i] = f.filename}

\* the files of the model that have an extension without a branch
UnsupportedFiles == {f \in DiskFiles \cup Uploads : UnsupportedFormat(f)}

UnsupportedNames == {f.filename : f \in UnsupportedFiles}

\* every way of extracting such a file ends in an error
ExtractionRefuses ==
    \A f \in UnsupportedFiles :
        /\ ~get_uploaded_file_content(f).ok
        /\ ~get_content(f.filename).ok
        /\ ~get_file_content(f.filename).ok

\* the request was given a file of an unsupported format
GivenUnsupported(c) ==
    \/ calls[c].op = "upload" /\ calls[c].file \in UnsupportedFiles
    \/ /\ calls[c].op = "ingest"
       /\ \E i \in 1..Len(calls[c].paths) : calls[c].paths[i] \in UnsupportedNames

TextFile(f) == Lower(SplitExt(f.filename)) \in TextExts

\* U+FFFD, the character a lossy decoder puts where bytes are no UTF-8
Replacement == "U+FFFD"

\* a decoding that puts the replacement character for every invalid byte
DecodeReplace(bytes) ==
    [i \in 1..Len(bytes) |-> IF bytes[i] = BadByte THEN Replacement ELSE bytes[i]]

\* C17: extraction of a .md or .txt file does not fail, and the extracted
\* text holds every valid character in order and the replacement character
\* in the place of every invalid byte.
InvalidBytesReplaced ==
    \A c \in CallIds : IsIngest(c) =>
        /\ \A f \in FilesOf(c) : TextFile(f) => get_uploaded_file_content(f).ok
        /\ \A i \in 1..Len(calls[c].docs) :
              \A f \in FilesOf(c) :
                  (TextFile(f) /\ f.filename = calls[c].docs[i].metadata.source)
                  => calls[c].docs[i].page_content = DecodeReplace(f.bytes)

\* the search of query q can hand back the entry: it is among the results,
\* or the results are k entries none of which is less similar to the query
Visible(e, q) ==
    \/ \E j \in 1..Len(calls[q].results) : calls[q].results[j].id = e.id
    \/ /\ Len(calls[q].results) = calls[q].k
       /\ \A j \in 1..Len(calls[q].results) :
             SimGE(Embed(calls[q].query), Origin(calls[q].results[j]).vector, e.vector)

\* every id a successful ingest returned is the id of an entry of the index
\* the request targeted
Kept(c) ==
    \A id \in IdSet(c) :
        \E i \in 1..Len(store[calls[c].target]) :
            /\ store[calls[c].target][i].id = id
            /\ store[calls[c].target][i].call = c

\* C18: under every interleaving of ingest and query requests, the chunks
\* of an ingest that has returned success stay in the index whatever other
\* ingests add, and a search that runs after the ingest returned can hand
\* back each of them.
ReadAfterWrite ==
    [][/\ \A c \in CallIds :
             (IsIngest(c) /\ calls[c].pc = "done")' => Kept(c)'
       /\ \A q, c \in CallIds :
             (/\ Running(q, "query", "searching")
              /\ calls'[q].pc = "composing"
              /\ IsIngest(c) /\ calls[c].pc = "done"
              /\ calls[c].target = calls[q].target) =>
                 \A i \in 1..Len(AddedBy(c)) : Visible(AddedBy(c)[i], q)']_vars

\* two ingests into the durable index overlapped: the request that began
\* later stored its chunks first, and the chunks of both are in the index
ReadAfterWriteWitness ==
    \E c, d \in CallIds :
        /\ c < d
        /\ calls[c].op = "ingest" /\ calls[d].op = "ingest"
        /\ calls[c].pc = "done" /\ calls[d].pc = "done"
        /\ calls[c].target = "db" /\ calls[d].target = "db"
        /\ AddedBy(c) # <<>> /\ AddedBy(d) # <<>>
        /\ AddedBy(d)[1].id < AddedBy(c)[1].id
        /\ Kept(c) /\ Kept(d)

\* C19: no ingest or query request is left waiting without end: a request
\* whose endpoint never answers ends failed, so none is ever blocked in a
\* wait that nothing ends.
NoCallHangs ==
    \A c \in CallIds : calls[c].op \in {"ingest", "upload", "query"} =>
        calls[c].pc # "blocked"

\* the call returned what it fetched, downloaded and transcribed itself
SucceededUncached(d) ==
    transcribes[d].pc = "done" /\ ~transcribes[d].result.from_cache

IngestStep(c) ==
    LET old == calls[c]
        new == calls'[c]
    IN  \/ /\ old.pc = "idle" /\ new.pc = "validating"
           /\ new.docs = <<>> /\ new.chunks = <<>>
        \/ /\ old.pc = "validating" /\ new.pc \in {"extracting", "failed"}
           /\ new.pc = "extracting" => new.docs = <<>>
        \/ /\ old.pc = "extracting" /\ new.pc = "extracting"
           /\ Len(old.docs) < Len(old.paths)
           /\ new.docs = Append(old.docs,
                 Doc(get_file_content(old.paths[Len(old.docs) + 1]).content,
                     old.paths[Len(old.docs) + 1]))
        \/ /\ old.pc = "extracting" /\ new.pc = "failed"
           /\ Len(old.docs) < Len(old.paths)
           /\ ~get_file_content(old.paths[Len(old.docs) + 1]).ok
        \/ /\ old.pc = "extracting" /\ new.pc = "storing"
           /\ Len(old.docs) = Len(old.paths)
           /\ new.chunks = split_documents(old.docs)
        \/ /\ old.pc = "storing" /\ new.pc \in {"done", "failed"}

\* C21: an ingest_files request goes from the API check to the fetch of
\* every path in order, then to the split of all documents, then to one add
\* to the index; the index changes in the add alone; the request ends
\* either done with a result or failed with the first error, and an ended
\* request takes no further step.
IngestStepOrder ==
    [][\A c \in CallIds :
          (calls'[c].op = "ingest" /\ calls'[c] # calls[c]) =>
             /\ IngestStep(c)
             /\ calls[c].pc \notin {"done", "failed"}
             /\ calls'[c].pc = "done" <=> calls'[c].result # NoResult
             /\ calls'[c].pc = "failed" <=> calls'[c].error # "none"
             /\ (\E t \in Targets : \E i \in 1..Len(store'[t]) :
                    store'[t][i].call = c /\ (i > Len(store[t]) \/ store[t][i] # store'[t][i]))
                => (calls[c].pc = "storing" /\ calls'[c].pc = "done")]_vars

\* a request for two paths is done and has returned the ids of two chunks
IngestStepOrderWitness ==
    \E c \in CallIds :
        /\ calls[c].op = "ingest" /\ calls[c].pc = "done"
        /\ Len(calls[c].paths) = 2
        /\ Len(calls[c].result.document_ids) = 2
        /\ calls[c].status = 201

\* the step the request takes is a step of query_with_context in its order
QueryStep(c) ==
    LET old == calls[c]
        new == calls'[c]
    IN  \/ /\ old.pc = "idle" /\ new.pc = "searching"
           /\ ~new.searched /\ new.results = <<>> /\ new.messages = <<>>
        \/ /\ old.pc = "searching" /\ new.pc = "composing"
           /\ new.searched /\ new.error = "none" /\ new.messages = <<>>
           /\ \E got \in vector_search(store[old.target], old.query, old.k) :
                 got.ok /\ new.results = got.docs
        \/ /\ old.pc = "searching" /\ new.pc = "failed"
           /\ new.searched /\ new.messages = <<>>
        \/ /\ old.pc = "composing" /\ new.pc = "invoking"
           /\ new.messages = Messages(old.query, new.context_text)
        \/ /\ old.pc = "invoking" /\ new.pc = "done"
           /\ new.result.status = "success"
           /\ \E answer \in Answers : new.result.response = Strip(answer)
        \/ /\ old.pc = "invoking" /\ new.pc = "failed"

\* C22: a query goes from the search to the composition of the context and
\* then to one invocation of the chat model; a query whose search failed
\* ends there and never has messages for the model; the request ends done
\* with status success and a response, or failed, and then takes no
\* further step.
QueryStepOrder ==
    [][\A c \in CallIds :
          (calls'[c].op = "query" /\ calls'[c] # calls[c]) =>
             /\ QueryStep(c)
             /\ calls[c].pc \notin {"done", "failed"}
             /\ calls'[c].pc = "done" <=> calls'[c].result # NoResult
             /\ calls'[c].pc = "failed" <=> calls'[c].error # "none"
             /\ store' = store]_vars

\* a query of an index that holds chunks has searched and returned the
\* stripped answer of the model
QueryStepOrderWitness ==
    \E c \in CallIds :
        /\ calls[c].op = "query" /\ calls[c].pc = "done"
        /\ calls[c].searched
        /\ calls[c].result.status = "success"
        /\ calls[c].result.response = <<"o", "k">>
        /\ store[calls[c].target] # <<>>

\* the stored text of the entry behind a result, with its source suffix
SuffixedEntry(doc) ==
    Origin(doc).page_content \o <<" (Source: ">> \o Origin(doc).metadata.source
        \o <<")">>

\* the suffixed chunks, joined by a blank line
RECURSIVE ContextBlock(_)
ContextBlock(results) ==
    IF results = <<>> THEN <<>>
    ELSE IF Len(results) = 1 THEN SuffixedEntry(results[1])
    ELSE SuffixedEntry(results[1]) \o <<NL, NL>> \o ContextBlock(Tail(results))

\* C23: the prompt of a query is two messages: a system message that holds
\* the instructions and then, between the context tags, the suffixed
\* chunks in the order of their rank joined by a blank line, and a user
\* message that holds the query text as the caller sent it.
PromptLayout ==
    \A c \in CallIds : (calls[c].op = "query" /\ calls[c].pc = "invoking") =>
        LET msgs == calls[c].messages
        IN  /\ Len(msgs) = 2
            /\ msgs[1].role = "system" /\ msgs[2].role = "user"
            /\ msgs[2].content = calls[c].query
            /\ msgs[1].content
                  = <<Instructions, "<context>", NL>>
                    \o ContextBlock(calls[c].results) \o <<NL, "</context>">>
            /\ Descending(c)

\* the prompt of a query with blanks around its text holds chunks of
\* different rank
PromptLayoutWitness ==
    \E c \in CallIds :
        /\ calls[c].op = "query" /\ calls[c].pc = "invoking"
        /\ Strip(calls[c].query) # calls[c].query
        /\ Len(calls[c].results) >= 3
        /\ \E i, j \in 1..Len(calls[c].results) :
              ~SimGE(Embed(calls[c].query), Origin(calls[c].results[j]).vector,
                     Origin(calls[c].results[i]).vector)

\* the text put together again from the chunks of one document: of every
\* chunk but the last its characters before the overlap, and the last
\* chunk whole
RECURSIVE Reassembled(_)
Reassembled(chunks) ==
    IF chunks = <<>> THEN <<>>
    ELSE IF Len(chunks) = 1 THEN chunks[1].page_content
    ELSE SubSeq(chunks[1].page_content, 1,
                Max(0, Len(chunks[1].page_content) - chunk_overlap))
         \o Reassembled(Tail(chunks))

\* C24: the chunks of every document, put together again without their
\* overlaps, give the text of the document: chunking drops no character.
ChunkCoverage ==
    \A c \in CallIds : (IsIngest(c) /\ calls[c].pc = "storing") =>
        \A i \in 1..Len(calls[c].docs) :
            Reassembled(split_documents(<<calls[c].docs[i]>>))
                = calls[c].docs[i].page_content

\* text[-n:] and text[:n]
LastChars(text, n) == SubSeq(text, Max(1, Len(text) - n + 1), Len(text))

FirstChars(text, n) == SubSeq(text, 1, Min(n, Len(text)))

\* the chunk's text stands in the document at the chunk's start offset
StandsAt(chunk, docs) ==
    \E i \in 1..Len(docs) :
        /\ docs[i].metadata.source = chunk.metadata.source
        /\ chunk.metadata.start_index >= 0
        /\ SubSeq(docs[i].page_content, chunk.metadata.start_index + 1,
                  chunk.metadata.start_index + Len(chunk.page_content))
               = chunk.page_content

\* C25: of two chunks that follow each other in the chunks of one document,
\* the last chunk_overlap characters of the earlier are the first
\* chunk_overlap characters of the later, and every chunk's start_index is
\* a position of its text in the document.
ChunkOverlap ==
    \A c \in CallIds : (IsIngest(c) /\ calls[c].pc = "storing") =>
        /\ \A i \in 1..Len(calls[c].chunks) : StandsAt(calls[c].chunks[i], calls[c].docs)
        /\ \A i \in 1..(Len(calls[c].chunks) - 1) :
              calls[c].chunks[i].metadata.source
                  = calls[c].chunks[i + 1].metadata.source
              => LastChars(calls[c].chunks[i].page_content, chunk_overlap)
                   = FirstChars(calls[c].chunks[i + 1].page_content, chunk_overlap)

\* the half of C25 about the offsets alone
ChunkOffsets ==
    \A c \in CallIds : (IsIngest(c) /\ calls[c].pc = "storing") =>
        \A i \in 1..Len(calls[c].chunks) : StandsAt(calls[c].chunks[i], calls[c].docs)


\* the stream has ended, one way or another
StreamOver(s) == streams[s].pc \in {"done", "closed", "failed"}

\* C26: a row of file_summaries changes only in the step that ends a
\* generator all of whose fragments have been yielded, and the text saved is
\* those fragments in order; a generator that has ended yields and saves no
\* more, and one the consumer closed has saved nothing.
SaveAfterDrain ==
    [][/\ \A path \in StreamPaths : summaries'[path] # summaries[path] =>
             \E s \in StreamIds :
                 /\ streams[s].path = path
                 /\ streams[s].pc = "streaming"
                 /\ streams[s].pending = <<>>
                 /\ streams'[s].pc = "done"
                 /\ streams'[s].yielded = streams[s].yielded
                 /\ summaries'[path].summary_text = Join(<<>>, streams[s].yielded)
       /\ \A s \in StreamIds : StreamOver(s) => streams'[s] = streams[s]
       /\ \A s \in StreamIds : streams'[s].pc = "closed" => ~streams'[s].saved
      ]_vars

\* one stream drained and saved, another closed after a fragment with no
\* row for its path
SaveAfterDrainWitness ==
    \E s, t \in StreamIds :
        /\ streams[s].pc = "done" /\ streams[s].saved
        /\ Len(streams[s].yielded) = 2
        /\ summaries[streams[s].path].summary_text = <<"a", " ", "b">>
        /\ streams[t].pc = "closed"
        /\ streams[t].yielded # <<>>
        /\ summaries[streams[t].path] = NoSummary

\* no stored text holds the marker of the suffix
Unsuffixed ==
    \A t \in Targets : \A i \in 1..Len(store[t]) :
        \A j \in 1..Len(store[t][i].page_content) :
            store[t][i].page_content[j] # SourcePrefix

\* the context of a query holds each chunk found as the index stores it,
\* with one suffix
ContextFromIndex(c) ==
    (calls[c].op = "query" /\ calls[c].pc = "invoking") =>
        /\ ChunksIn(calls[c].context_text) = Len(calls[c].results)
        /\ calls[c].context_text = ContextBlock(calls[c].results)

\* C27: a query, from its call to its end, leaves the entries of the index
\* as they are: no stored text holds a "(Source: ...)" suffix, and the
\* context the query builds is the stored texts of the chunks found, each
\* with one suffix.
QueryLeavesIndex ==
    [][\A c \in CallIds : (calls'[c].op = "query" /\ calls'[c] # calls[c]) =>
            /\ store' = store
            /\ Unsuffixed'
            /\ ContextFromIndex(c)'
      ]_vars

\* a query that has built its context from two stored chunks
QueryLeavesIndexWitness ==
    \E c \in CallIds :
        /\ calls[c].op = "query" /\ calls[c].pc = "invoking"
        /\ Len(calls[c].results) >= 2
        /\ Len(store[calls[c].target]) >= 2

\* the entries of the two indexes that request c added
WrittenBy(c) ==
    {e \in UNION {{store[t][i] : i \in 1..Len(store[t])} : t \in Targets} :
        e.call = c}

\* C28: an ingest_files request that is still at the API check or at the
\* fetch of a path, or that has failed, has written no entry to an index:
\* what it fetched before a path failed is in no index.
FailedIngestWritesNothing ==
    \A c \in CallIds :
        (calls[c].op = "ingest"
            /\ calls[c].pc \in {"validating", "extracting", "failed"})
        => WrittenBy(c) = {}

\* an ingest whose first path was fetched and whose second was not has
\* failed, beside an index that another request filled
FailedIngestWritesNothingWitness ==
    \E c, d \in CallIds :
        /\ calls[c].op = "ingest" /\ calls[c].pc = "failed"
        /\ Len(calls[c].paths) = 2
        /\ get_file_content(calls[c].paths[1]).ok
        /\ ~get_file_content(calls[c].paths[2]).ok
        /\ calls[c].error # "ConnectionError"
        /\ IsIngest(d) /\ calls[d].pc = "done"
        /\ calls[d].target = calls[c].target
        /\ store[calls[c].target] # <<>>

\* the files of the videos directory that call u wrote
FilesOfUpload(u) == {f \in videos_dir : f.path = uploads[u].stored_path}

HasRecord(f) ==
    \E i \in 1..Len(local_videos) : local_videos[i].stored_path = f.path

\* no two rows of local_videos with one file_hash
OneRecordPerHash ==
    \A i, j \in 1..Len(local_videos) :
        i # j => local_videos[i].file_hash # local_videos[j].file_hash

\* an accepted upload of content the table held when the call began has
\* returned duplicate
StoredContentIsDuplicate ==
    \A u \in UploadIds :
        (/\ uploads[u].pc = "done" /\ uploads[u].stored
         /\ validate_video_file(uploads[u].filename, uploads[u].mime_type))
        => uploads[u].result.status = "duplicate"

\* the part of C29 about the rows and the answers alone
UploadRecords == OneRecordPerHash /\ StoredContentIsDuplicate

\* C29: under every interleaving of uploads the table holds no two rows
\* with one file_hash, every accepted upload of content already stored
\* returns duplicate, and once an upload has returned duplicate or an error
\* no file it wrote is left in the videos directory: the file of every
\* upload that has returned has a row.
UploadKeepsOneRecord ==
    /\ OneRecordPerHash
    /\ StoredContentIsDuplicate
    /\ \A u \in UploadIds :
          (uploads[u].pc = "done"
              /\ uploads[u].result.status \in {"duplicate", "error"})
          => FilesOfUpload(u) = {}
    /\ \A u \in UploadIds : uploads[u].pc = "done" =>
          \A f \in FilesOfUpload(u) : HasRecord(f)

\* the call has its path and its caller has not cleaned up yet
HoldsAudioPath(d) == downloads[d].pc \in {"downloading", "returned"}

\* C30: two download_audio calls that overlap in time, each between the
\* choice of its output path and the cleanup of its file, never have the
\* same output path.
UniqueAudioPath ==
    \A d, e \in DownloadIds :
        (d # e /\ HoldsAudioPath(d) /\ HoldsAudioPath(e))
        => downloads[d].output_path # downloads[e].output_path

====
